---- MODULE Spec2Model ----
(***************************************************************************)
(* Adaptive voice-activity detection of stoic-mentor's backend.            *)
(*                                                                         *)
(* This part models AudioAnalysisService (audio_analysis_service.py): the  *)
(* noise-floor / standard-deviation estimator with its calibration state   *)
(* machine, the hysteresis counters and the events it emits.               *)
(*                                                                         *)
(* Numbers.  The code computes in floating point.  The model is fixed      *)
(* point: a level, noise_floor and std_dev are integers in units of        *)
(* 1/LevelScale, sensitivity_factor is in units of 1/FactorScale and       *)
(* smoothing_factor in units of 1/FactorScale.  A threshold is in units of *)
(* 1/(LevelScale*FactorScale), so that noise_floor + std_dev *             *)
(* sensitivity_factor needs no rounding and `level > threshold` is exact.  *)
(* mean, stdev and the moving average round down to the unit.  The         *)
(* comparisons of _adjust_sensitivity_factor are made on the exact         *)
(* rationals (cross-multiplied), not on rounded values.                    *)
(*                                                                         *)
(* Time is in milliseconds.  `now` is the wall clock (time.time()).        *)
(***************************************************************************)
EXTENDS Integers, Sequences, FiniteSets, TLC

VARIABLES
    svc,      \* the AudioAnalysisService object: its fields
    now,      \* the wall clock, int(time.time() * 1000)
    result,   \* what the last add_audio_sample call returned
    events,   \* the events the last call emitted, in emission order
    call,     \* the last add_audio_sample or force_recalibration call: its name,
              \* its arguments, what held when it began (was_calibrating,
              \* was_speech, elapsed: the calibration window had elapsed) and
              \* in_flight: the samples of a running calibration it discarded
    run,      \* how the add_audio_sample calls so far end (see NextRun)
    listeners,  \* svc's _event_listeners: for each event kind, the callbacks
                \* registered, in registration order
    delivered,  \* the callbacks the last call invoked, in invocation order
    socket_vad_service,  \* the SocketVADService object: config and sessions
    sweep,      \* the cleanup thread: where it stands in _cleanup_expired_sessions
    handler,    \* the request handler in progress, if one is
    req,        \* the last request a handler completed, and what it found
    reply,      \* what that handler emitted to the client
    heap        \* the objects allocated and the uuids generated so far

estimatorVars == <<svc, result, events, call, run>>
listenerVars == <<listeners, delivered>>
registryVars == <<socket_vad_service, sweep, handler, req, reply, heap>>

vars == <<svc, now, result, events, call, run, listeners, delivered,
          socket_vad_service, sweep, handler, req, reply, heap>>

----------------------------------------------------------------------------
(* Units and bounds *)

LevelScale == 1000
FactorScale == 100

\* The clock is observed in steps of one default calibration window (TickMs).
\* Spec: the clock stops after MaxTicks steps, and add_audio_sample is not called
\* when the sample buffer would grow past MaxSamples.
MaxTicks == 2
MaxSamples == 5
\* SpecAdapt (long streams over a short history): the clock stops after
\* AdaptTicks steps; add_audio_sample is not called when the buffer would grow
\* past AdaptCalibrationSamples in CALIBRATING or past AdaptSamples in ACTIVE, nor
\* when a hysteresis counter would pass AdaptConsecutive.
AdaptTicks == 1
AdaptCalibrationSamples == 1
AdaptSamples == 10
AdaptConsecutive == 2

\* SpecConfig (every configuration key a client can change): the clock stops
\* after ConfigTicks steps and the sample buffer holds at most ConfigSamples.
ConfigTicks == 1
ConfigSamples == 3

\* SpecSilence (long silences): the clock stops after SilenceTicks steps, past
\* the recalibration interval, and the sample buffer holds at most SilenceSamples.
SilenceTicks == 3
SilenceSamples == 5

\* SpecStable (a sustained stable signal): the clock stops after StableTicks
\* steps and add_audio_sample is not called when the buffer would grow past
\* StableSamples or a hysteresis counter would pass StableSamples.
StableTicks == 1
StableSamples == 15

\* Audio levels fed to the estimator: 0.01 (room silence) and 0.5 (speech).
Quiet == 10
Loud == 500
Levels == {Quiet, Loud}

----------------------------------------------------------------------------
(* AudioAnalysisEvent *)

CALIBRATION_START == "calibration-start"
CALIBRATION_COMPLETE == "calibration-complete"
SPEECH_START == "speech-start"
SPEECH_END == "speech-end"
THRESHOLD_CHANGED == "threshold-changed"

DEFAULT_CONFIG ==
    [ initial_sensitivity_factor   |-> 150,
      calibration_duration_ms      |-> 2000,
      recalibration_interval_ms    |-> 5000,
      silence_duration_for_recal_ms |-> 2000,
      max_sample_history           |-> 50,
      smoothing_factor             |-> 10,
      consecutive_frames_threshold |-> 2,
      debug                        |-> FALSE ]

ConfigKeys == DOMAIN DEFAULT_CONFIG

TickMs == DEFAULT_CONFIG.calibration_duration_ms

----------------------------------------------------------------------------
(* Arithmetic helpers: the statistics module on fixed-point numbers *)

\* sum(s), element by element, a long sequence sixteen elements at a time.
RECURSIVE SumSeq(_)
SumSeq(s) ==
    IF s = <<>> THEN 0
    ELSE IF Len(s) <= 16 THEN Head(s) + SumSeq(Tail(s))
    ELSE SumSeq(SubSeq(s, 1, 16)) + SumSeq(SubSeq(s, 17, Len(s)))

\* sum(x * x for x in s), likewise.
RECURSIVE SumSq(_)
SumSq(s) ==
    IF s = <<>> THEN 0
    ELSE IF Len(s) <= 16 THEN Head(s) * Head(s) + SumSq(Tail(s))
    ELSE SumSq(SubSeq(s, 1, 16)) + SumSq(SubSeq(s, 17, Len(s)))

\* The largest r in lo..hi with r*r <= v, by bisection.
RECURSIVE ISqrtIn(_, _, _)
ISqrtIn(v, lo, hi) ==
    IF lo >= hi THEN lo
    ELSE LET mid == (lo + hi + 1) \div 2 IN
         IF mid * mid <= v THEN ISqrtIn(v, mid, hi) ELSE ISqrtIn(v, lo, mid - 1)

\* math.sqrt rounded down to the unit; no level, so no deviation, passes LevelScale.
ISqrt(v) == ISqrtIn(v, 0, LevelScale)

\* statistics.mean
Mean(s) == SumSeq(s) \div Len(s)

\* n(n-1) times the sample variance: n*sum(x^2) - sum(x)^2, an exact integer.
Dispersion(s) == Len(s) * SumSq(s) - SumSeq(s) * SumSeq(s)

\* statistics.stdev: sqrt(sum((x - mean)^2) / (n - 1)), for n >= 2.
Stdev(s) == ISqrt(Dispersion(s) \div (Len(s) * (Len(s) - 1)))

\* s[-n:] of Python for n >= 1: the last n elements, or all of s when shorter.
LastN(s, n) == IF Len(s) <= n THEN s ELSE SubSeq(s, Len(s) - n + 1, Len(s))

Min(a, b) == IF a <= b THEN a ELSE b
Max(a, b) == IF a >= b THEN a ELSE b

Count(e, evs) == Cardinality({i \in 1..Len(evs) : evs[i] = e})

----------------------------------------------------------------------------
(* AudioAnalysisService *)

\* Variant: the threshold without its deviation term.
threshold_without_deviation(s) == s.noise_floor * FactorScale

get_current_threshold(s) ==
    s.noise_floor * FactorScale + s.std_dev * s.sensitivity_factor

get_noise_profile(s) ==
    [ noise_floor           |-> s.noise_floor,
      std_dev               |-> s.std_dev,
      samples               |-> s.samples,
      sensitivity_factor    |-> s.sensitivity_factor,
      last_calibration_time |-> s.last_calibration_time,
      calibration_complete  |-> s.calibration_complete ]

is_calibrating(s) == s.is_calibrating

\* Variant: a calibration start that keeps the collected samples.
start_calibration_keeping_samples(s, t) ==
    [ svc    |-> [s EXCEPT !.is_calibrating = TRUE,
                           !.calibration_complete = FALSE,
                           !.last_calibration_time = t],
      events |-> <<CALIBRATION_START>> ]

\* Variant: a calibration start that also clears the hysteresis counters.
start_calibration_clearing_counters(s, t) ==
    [ svc    |-> [s EXCEPT !.is_calibrating = TRUE,
                           !.calibration_complete = FALSE,
                           !.samples = <<>>,
                           !.last_calibration_time = t,
                           !.consecutive_speech_frames = 0,
                           !.consecutive_silence_frames = 0],
      events |-> <<CALIBRATION_START>> ]

\* _start_calibration at wall-clock time t: the new object and the events emitted.
start_calibration(s, t) ==
    [ svc    |-> [s EXCEPT !.is_calibrating = TRUE,
                           !.calibration_complete = FALSE,
                           !.samples = <<>>,
                           !.last_calibration_time = t],
      events |-> <<CALIBRATION_START>> ]

\* Variants: the statistics are taken from more than 5 samples only / from 4 on.
CalibratedProfileOver5(samples) ==
    IF Len(samples) > 5
    THEN [ noise_floor |-> Mean(samples), std_dev |-> Stdev(samples) ]
    ELSE [ noise_floor |-> 20, std_dev |-> 10 ]

CalibratedProfileFrom4(samples) ==
    IF Len(samples) >= 4
    THEN [ noise_floor |-> Mean(samples), std_dev |-> Stdev(samples) ]
    ELSE [ noise_floor |-> 20, std_dev |-> 10 ]

\* The noise floor and standard deviation _complete_calibration derives.
CalibratedProfile(samples) ==
    IF Len(samples) >= 5
    THEN [ noise_floor |-> Mean(samples),
           std_dev     |-> IF Len(samples) > 1 THEN Stdev(samples) ELSE 10 ]
    ELSE [ noise_floor |-> 20, std_dev |-> 10 ]

complete_calibration(s) ==
    LET p == CalibratedProfile(s.samples) IN
    [ svc    |-> [s EXCEPT !.noise_floor = p.noise_floor,
                           !.std_dev = p.std_dev,
                           !.is_calibrating = FALSE,
                           !.calibration_complete = TRUE],
      events |-> <<CALIBRATION_COMPLETE>> ]

\* __init__ with the default configuration, at wall-clock time t.
NewService(t) ==
    start_calibration(
        [ config                     |-> DEFAULT_CONFIG,
          samples                    |-> <<>>,
          noise_floor                |-> 0,
          std_dev                    |-> 0,
          sensitivity_factor         |-> DEFAULT_CONFIG.initial_sensitivity_factor,
          last_calibration_time      |-> 0,
          calibration_complete       |-> FALSE,
          is_calibrating             |-> TRUE,
          last_is_speech             |-> FALSE,
          consecutive_speech_frames  |-> 0,
          consecutive_silence_frames |-> 0,
          last_speech_time           |-> 0,
          last_silence_time          |-> 0 ], t)

\* Lines 148-151: the rolling history drops one oldest sample when over the maximum.
AppendToHistory(s, level) ==
    LET appended == Append(s.samples, level) IN
    [s EXCEPT !.samples = IF Len(appended) > s.config.max_sample_history
                          THEN Tail(appended) ELSE appended]

\* Variant: a silent frame does not reset the count of speech frames.
TrackWithoutReset(s, is_speech, timestamp) ==
    IF is_speech
    THEN [s EXCEPT !.consecutive_speech_frames = @ + 1,
                   !.consecutive_silence_frames = 0,
                   !.last_speech_time = timestamp]
    ELSE [s EXCEPT !.consecutive_silence_frames = @ + 1,
                   !.last_silence_time = timestamp]

\* Lines 159-167: the hysteresis counters.
TrackConsecutiveFrames(s, is_speech, timestamp) ==
    IF is_speech
    THEN [s EXCEPT !.consecutive_speech_frames = @ + 1,
                   !.consecutive_silence_frames = 0,
                   !.last_speech_time = timestamp]
    ELSE [s EXCEPT !.consecutive_speech_frames = 0,
                   !.consecutive_silence_frames = @ + 1,
                   !.last_silence_time = timestamp]

\* _recalibrate_from_recent_silence at wall-clock time t.
recalibrate_from_recent_silence(s, t) ==
    LET recent_samples == LastN(s.samples, Min(20, Len(s.samples))) IN
    IF Len(recent_samples) >= 5
    THEN [ svc    |-> [s EXCEPT !.noise_floor = Mean(recent_samples),
                                !.std_dev = IF Len(recent_samples) > 1
                                            THEN Stdev(recent_samples) ELSE 10,
                                !.last_calibration_time = t],
           events |-> <<THRESHOLD_CHANGED>> ]
    ELSE [ svc |-> s, events |-> <<>> ]

\* Lines 205-220: the moving average of the noise floor, for quiet sounds.
UpdateNoiseFloor(s, level, threshold) ==
    IF 2 * level < 3 * s.noise_floor      \* level < noise_floor * 1.5
    THEN LET silent_samples ==
                 SelectSeq(LastN(s.samples, 10), LAMBDA x : x * FactorScale < threshold)
         IN [ svc |-> [s EXCEPT
                  !.noise_floor = (s.config.smoothing_factor * level
                                   + (FactorScale - s.config.smoothing_factor) * @)
                                  \div FactorScale,
                  !.std_dev = IF Len(s.samples) > 10 /\ Len(silent_samples) >= 5
                              THEN Stdev(silent_samples) ELSE @],
              events |-> <<THRESHOLD_CHANGED>> ]
    ELSE [ svc |-> s, events |-> <<>> ]

\* Variant: the adjustment without its clamps.
AdjustedFactorUnclamped(factor, recent) ==
    LET n    == Len(recent)
        sum  == SumSeq(recent)
        disp == Dispersion(recent)
    IN IF sum > 0 /\ 4 * n * disp > (n - 1) * sum * sum THEN factor + 5
       ELSE IF (sum <= 0 \/ 25 * n * disp < (n - 1) * sum * sum) /\ factor > 130
       THEN factor - 5
       ELSE factor

\* The sensitivity factor after one adjustment of `factor`: the
\* coefficient of variation std_dev / mean of `recent` is compared exactly.
AdjustedFactor(factor, recent) ==
    LET n    == Len(recent)
        sum  == SumSeq(recent)
        disp == Dispersion(recent)
        high == sum > 0 /\ 4 * n * disp > (n - 1) * sum * sum       \* coeff > 0.5
        low  == sum <= 0 \/ 25 * n * disp < (n - 1) * sum * sum     \* coeff < 0.2
    IN IF high THEN Min(200, factor + 5)
       ELSE IF low /\ factor > 130 THEN Max(120, factor - 5)
       ELSE factor

adjust_sensitivity_factor(s) ==
    IF Len(s.samples) >= 10
    THEN [s EXCEPT !.sensitivity_factor = AdjustedFactor(@, LastN(s.samples, 10))]
    ELSE s

\* Variant: the window counts as elapsed only strictly after its duration.
CalibrationElapsedStrictly(s, timestamp) ==
    timestamp - s.last_calibration_time > s.config.calibration_duration_ms

\* Lines 135-136: the calibration window has elapsed at `timestamp`.
CalibrationElapsed(s, timestamp) ==
    timestamp - s.last_calibration_time >= s.config.calibration_duration_ms

\* Variant: the calibration result reports the live threshold and compares.
CalibratingResultLive(s, level, timestamp) ==
    [level |-> level, threshold |-> get_current_threshold(s),
     is_speech |-> level * FactorScale > get_current_threshold(s),
     timestamp |-> timestamp]

\* Lines 140-146: what add_audio_sample returns during calibration.  The result's
\* 'profile' is get_noise_profile() of the object as the call leaves it.
CalibratingResult(s, level, timestamp) ==
    [level |-> level, threshold |-> 0, is_speech |-> FALSE, timestamp |-> timestamp]

\* add_audio_sample(level, timestamp) at wall-clock time t:
\* the new object, the returned result and the events emitted.
add_audio_sample(s, level, timestamp, t) ==
    IF s.is_calibrating
    THEN LET s1 == [s EXCEPT !.samples = Append(@, level)]
             c == IF CalibrationElapsed(s1, timestamp)
                  THEN complete_calibration(s1)
                  ELSE [svc |-> s1, events |-> <<>>]
         IN [ svc    |-> c.svc,
              result |-> CalibratingResult(c.svc, level, timestamp),
              events |-> c.events ]
    ELSE LET s1 == AppendToHistory(s, level)
             threshold == get_current_threshold(s1)
             is_speech == level * FactorScale > threshold
             s2 == TrackConsecutiveFrames(s1, is_speech, timestamp)
             n  == s2.config.consecutive_frames_threshold
             confirmed_is_speech == s2.consecutive_speech_frames >= n
         IN IF confirmed_is_speech /\ ~s2.last_is_speech
            THEN [ svc    |-> [s2 EXCEPT !.last_is_speech = TRUE],
                   result |-> [level |-> level, threshold |-> threshold,
                               is_speech |-> TRUE, timestamp |-> timestamp],
                   events |-> <<SPEECH_START>> ]
            ELSE IF ~is_speech /\ s2.last_is_speech /\ s2.consecutive_silence_frames >= n
            THEN [ svc    |-> [s2 EXCEPT !.last_is_speech = FALSE],
                   result |-> [level |-> level, threshold |-> threshold,
                               is_speech |-> FALSE, timestamp |-> timestamp],
                   events |-> <<SPEECH_END>> ]
            ELSE LET silence_duration == timestamp - s2.last_silence_time
                     r == IF /\ ~is_speech
                             /\ silence_duration > s2.config.silence_duration_for_recal_ms
                             /\ timestamp - s2.last_calibration_time
                                  > s2.config.recalibration_interval_ms
                          THEN recalibrate_from_recent_silence(s2, t)
                          ELSE [svc |-> s2, events |-> <<>>]
                     u  == UpdateNoiseFloor(r.svc, level, threshold)
                     s5 == adjust_sensitivity_factor(u.svc)
                 IN [ svc    |-> s5,
                      result |-> [level |-> level, threshold |-> threshold,
                                  is_speech |-> s5.last_is_speech,
                                  timestamp |-> timestamp],
                      events |-> r.events \o u.events ]

\* Variant: the restart also forgets the reported speech state.
force_recalibration_forgetting_speech(s, t) ==
    start_calibration([s EXCEPT !.last_is_speech = FALSE], t)

force_recalibration(s, t) == start_calibration(s, t)

\* Variant: the update also restarts the calibration.
update_config_and_recalibrate(s, partial) ==
    [s EXCEPT !.config = [k \in ConfigKeys |->
                            IF k \in DOMAIN partial THEN partial[k] ELSE @[k]],
              !.samples = <<>>,
              !.is_calibrating = TRUE,
              !.calibration_complete = FALSE]

\* dict.update: every key of the partial mapping overwrites, the others stay.
update_config(s, partial) ==
    [s EXCEPT !.config = [k \in ConfigKeys |->
                            IF k \in DOMAIN partial THEN partial[k] ELSE @[k]]]

----------------------------------------------------------------------------
(* The calls a client makes *)

\* The partial configurations a client sends to update_config.
PartialConfigs ==
    { [consecutive_frames_threshold |-> 3],
      [consecutive_frames_threshold |-> 2] }

NoResult == [level |-> 0, threshold |-> 0, is_speech |-> FALSE, timestamp |-> 0]

----------------------------------------------------------------------------
(* AudioAnalysisService: event listeners *)

EventKinds ==
    {CALIBRATION_START, CALIBRATION_COMPLETE, SPEECH_START, SPEECH_END, THRESHOLD_CHANGED}

\* The callables a client registers.  "faulty" raises when it is invoked, the
\* others return.
Callbacks == {"first", "second", "faulty"}

Raises(callback) == callback = "faulty"

\* Lines 68-74: one empty list per event kind.
NoListeners == [e \in EventKinds |-> <<>>]

NothingDelivered == [invoked |-> <<>>, raised |-> FALSE]

add_event_listener(ls, event, callback) ==
    IF event \in DOMAIN ls THEN [ls EXCEPT ![event] = Append(@, callback)] ELSE ls

\* list.remove: the first occurrence goes.
remove_event_listener(ls, event, callback) ==
    IF event \in DOMAIN ls /\ \E i \in 1..Len(ls[event]) : ls[event][i] = callback
    THEN LET first == CHOOSE i \in 1..Len(ls[event]) :
                          /\ ls[event][i] = callback
                          /\ \A j \in 1..(i - 1) : ls[event][j] # callback
         IN [ls EXCEPT ![event] = SubSeq(@, 1, first - 1) \o SubSeq(@, first + 1, Len(@))]
    ELSE ls

\* Variant: the callbacks of the event's list are called latest registration first.
emit_event_latest_first(ls, event) ==
    LET callbacks == IF event \in DOMAIN ls THEN ls[event] ELSE <<>>
        n         == Len(callbacks)
        failing   == {i \in 1..n : Raises(callbacks[n + 1 - i])}
        last      == IF failing = {} THEN n
                     ELSE CHOOSE i \in failing : \A j \in failing : i <= j
    IN [ invoked |-> [i \in 1..last |->
                        [event |-> event, callback |-> callbacks[n + 1 - i]]],
         raised  |-> failing # {} ]

\* _emit_event: the callbacks of the event's list are called in list order; an
\* exception of a callback leaves the loop, and _emit_event, at once.
emit_event(ls, event) ==
    LET callbacks == IF event \in DOMAIN ls THEN ls[event] ELSE <<>>
        failing   == {i \in 1..Len(callbacks) : Raises(callbacks[i])}
        last      == IF failing = {} THEN Len(callbacks)
                     ELSE CHOOSE i \in failing : \A j \in failing : i <= j
    IN [ invoked |-> [i \in 1..last |-> [event |-> event, callback |-> callbacks[i]]],
         raised  |-> failing # {} ]

\* The _emit_event calls one API call makes, for the events evs it emits in that
\* order: the exception of a callback propagates out of the API call, so the
\* later events are not emitted.  failed_at: the index of the event it left at.
RECURSIVE deliver(_, _, _)
deliver(ls, evs, at) ==
    IF at > Len(evs) THEN [invoked |-> <<>>, raised |-> FALSE, failed_at |-> 0]
    ELSE LET d == emit_event(ls, evs[at]) IN
         IF d.raised THEN [invoked |-> d.invoked, raised |-> TRUE, failed_at |-> at]
         ELSE LET rest == deliver(ls, evs, at + 1) IN
              [rest EXCEPT !.invoked = d.invoked \o @]

\* The object an add_audio_sample(level, timestamp) call leaves behind when the
\* callback at event d.failed_at raised; r is what the call does when no callback
\* raises.  Only the threshold-changed events are followed by more work: the one
\* of _recalibrate_from_recent_silence (line 249) by the moving average and the
\* sensitivity adjustment, the one of line 217 by the sensitivity adjustment.
AbortedSample(s, r, d, level, timestamp, t) ==
    IF r.events[d.failed_at] # THRESHOLD_CHANGED THEN r.svc
    ELSE IF d.failed_at < Len(r.events)
    THEN recalibrate_from_recent_silence(
             TrackConsecutiveFrames(AppendToHistory(s, level), FALSE, timestamp), t).svc
    ELSE [r.svc EXCEPT !.sensitivity_factor = s.sensitivity_factor]

----------------------------------------------------------------------------
(* UserSession (socket_vad_service.py) *)

\* webrtc_weight and rms_weight are in units of 1/FactorScale.
DEFAULT_SOCKET_VAD_CONFIG ==
    [ sample_rate        |-> 16000,
      frame_duration_ms  |-> 30,
      aggressiveness     |-> 2,
      use_webrtc_vad     |-> TRUE,
      use_rms_vad        |-> TRUE,
      webrtc_weight      |-> 70,
      rms_weight         |-> 30,
      session_timeout_ms |-> 300000,
      buffer_size        |-> 1024,
      debug              |-> FALSE ]

\* None, as a value of its own.
None == [none |-> TRUE]

\* dict.update: the keys of `partial` overwrite or are added.
DictUpdate(d, partial) ==
    [k \in DOMAIN d \cup DOMAIN partial |->
        IF k \in DOMAIN partial THEN partial[k] ELSE d[k]]

\* Lines 82-86: int(sample_rate * (frame_duration_ms / 1000.0) * bytes_per_sample).
FrameSize(config) == (config.sample_rate * config.frame_duration_ms * 2) \div 1000

\* webrtcvad.Vad(aggressiveness): a new object each time; serial tells the objects
\* one session constructs apart.
Vad(aggressiveness, serial) == [aggressiveness |-> aggressiveness, serial |-> serial]

\* UserSession(session_id, config) constructed at wall-clock time t; obj is the
\* identity of the new object.
NewUserSession(session_id, config, t, obj) ==
    LET merged == DictUpdate(DEFAULT_SOCKET_VAD_CONFIG, config) IN
    [ session_id        |-> session_id,
      created_at        |-> t,
      last_activity     |-> t,
      config            |-> merged,
      audio_service     |-> update_config(NewService(t).svc, [debug |-> merged.debug]),
      webrtc_vad        |-> IF merged.use_webrtc_vad THEN Vad(merged.aggressiveness, 1)
                            ELSE None,
      vads_built        |-> IF merged.use_webrtc_vad THEN 1 ELSE 0,
      is_speaking       |-> FALSE,
      speech_start_time |-> 0,
      speech_end_time   |-> 0,
      frames            |-> <<>>,
      max_frames        |-> 100,
      total_frames      |-> 0,
      speech_frames     |-> 0,
      frame_size        |-> FrameSize(merged),
      obj               |-> obj ]

is_expired(s, t) == t - s.last_activity > s.config.session_timeout_ms

update_activity(s, t) == [s EXCEPT !.last_activity = t]

\* Audio.  A frame of PCM data is represented by what the detectors compute from
\* it: `level`, its normalised RMS level, and `webrtc`, what webrtc_vad.is_speech
\* does with it ("speech", "silence", or "error" when it raises).  An audio payload
\* is [valid, frames, rest]: whether base64.b64decode accepts it, the frame_size
\* pieces of the decoded bytes in order, and the number of bytes after the last
\* whole piece (less than frame_size).
DecodedLength(audio_data, frame_size) ==
    Len(audio_data.frames) * frame_size + audio_data.rest

\* Variant: a piece counts as complete only when bytes follow it.
CompleteFramesBeforeEnd(audio_data, frame_size) ==
    LET n == DecodedLength(audio_data, frame_size)
        starts == {k \in 0..Len(audio_data.frames) :
                      k * frame_size < n /\ k * frame_size + frame_size < n}
    IN [k \in 1..Cardinality(starts) |-> audio_data.frames[k]]

\* Lines 124-128: the pieces range(0, len, frame_size) visits and finds complete.
CompleteFrames(audio_data, frame_size) ==
    LET n == DecodedLength(audio_data, frame_size)
        starts == {k \in 0..Len(audio_data.frames) :
                      k * frame_size < n /\ k * frame_size + frame_size <= n}
    IN [k \in 1..Cardinality(starts) |-> audio_data.frames[k]]

\* Variant: the secondary detector's verdict is not used when both are enabled.
EnsemblePrimaryOnly(config, is_speech_rms, is_speech_webrtc) ==
    IF config.use_rms_vad THEN is_speech_rms ELSE is_speech_webrtc

\* Lines 196-206: the ensemble verdict; a verdict counts as 1 or 0.
Ensemble(config, is_speech_rms, is_speech_webrtc) ==
    IF config.use_webrtc_vad /\ config.use_rms_vad
    THEN LET ensemble_score ==
                 (IF is_speech_webrtc THEN config.webrtc_weight ELSE 0)
                 + (IF is_speech_rms THEN config.rms_weight ELSE 0)
         IN 2 * ensemble_score > FactorScale          \* ensemble_score > 0.5
    ELSE IF config.use_rms_vad THEN is_speech_rms ELSE is_speech_webrtc

\* Lines 186-194: the secondary detector's verdict; False when it is absent or
\* raises (a frame the loop of process_audio_chunk hands over has frame_size bytes).
WebrtcVerdict(s, frame_data) ==
    IF s.webrtc_vad # None THEN frame_data.webrtc = "speech" ELSE FALSE

\* Variant: a full frame history turns the newest frame away.
process_frame_with_full_history_closed(s, frame_data, timestamp, rms_result) ==
    LET is_speech_rms      == rms_result.result.is_speech
        is_speech_webrtc   == WebrtcVerdict(s, frame_data)
        is_speech_ensemble == Ensemble(s.config, is_speech_rms, is_speech_webrtc)
        frame    == [ rms_level          |-> frame_data.level,
                      timestamp          |-> timestamp,
                      is_speech_rms      |-> is_speech_rms,
                      is_speech_webrtc   |-> is_speech_webrtc,
                      is_speech_ensemble |-> is_speech_ensemble ]
        appended == Append(s.frames, frame)
    IN [ session |-> [s EXCEPT
                        !.total_frames = @ + 1,
                        !.audio_service = rms_result.svc,
                        !.frames = IF Len(appended) > s.max_frames
                                   THEN s.frames ELSE appended,
                        !.speech_frames = IF is_speech_ensemble THEN @ + 1 ELSE @],
         result  |-> [ is_speech |-> is_speech_ensemble,
                       rms_level |-> frame_data.level,
                       threshold |-> rms_result.result.threshold,
                       timestamp |-> timestamp ] ]

\* _process_frame, given rms_result, what add_audio_sample(rms_level, timestamp)
\* returned and left of the estimator: the session and the frame's result.
process_frame_with(s, frame_data, timestamp, rms_result) ==
    LET is_speech_rms      == rms_result.result.is_speech
        is_speech_webrtc   == WebrtcVerdict(s, frame_data)
        is_speech_ensemble == Ensemble(s.config, is_speech_rms, is_speech_webrtc)
        frame    == [ rms_level          |-> frame_data.level,
                      timestamp          |-> timestamp,
                      is_speech_rms      |-> is_speech_rms,
                      is_speech_webrtc   |-> is_speech_webrtc,
                      is_speech_ensemble |-> is_speech_ensemble ]
        appended == Append(s.frames, frame)
    IN [ session |-> [s EXCEPT
                        !.total_frames = @ + 1,
                        !.audio_service = rms_result.svc,
                        !.frames = IF Len(appended) > s.max_frames
                                   THEN Tail(appended) ELSE appended,
                        !.speech_frames = IF is_speech_ensemble THEN @ + 1 ELSE @],
         result  |-> [ is_speech |-> is_speech_ensemble,
                       rms_level |-> frame_data.level,
                       threshold |-> rms_result.result.threshold,
                       timestamp |-> timestamp ] ]

process_frame(s, frame_data, timestamp, t) ==
    process_frame_with(s, frame_data, timestamp,
                       add_audio_sample(s.audio_service, frame_data.level, timestamp, t))

\* Lines 123-128: the frames in order; the session and the list of results.
RECURSIVE process_frames(_, _, _, _)
process_frames(s, frames, timestamp, t) ==
    IF frames = <<>> THEN [session |-> s, results |-> <<>>]
    ELSE LET first == process_frame(s, Head(frames), timestamp, t)
             rest  == process_frames(first.session, Tail(frames), timestamp, t)
         IN [results |-> <<first.result>> \o rest.results, session |-> rest.session]

\* Variant: the chunk speaks when at least half of its frames do.
ChunkVerdictAtLeastHalf(results) ==
    2 * Cardinality({i \in 1..Len(results) : results[i].is_speech}) >= Len(results)

\* Lines 133-136: speech_ratio > 0.5.
ChunkVerdict(results) ==
    2 * Cardinality({i \in 1..Len(results) : results[i].is_speech}) > Len(results)

\* Variant: a speech_end measures from the end of the speech before.
chunk_result_since_last_end(processed, timestamp) ==
    LET s == processed.session
        results == processed.results
        new_is_speaking == ChunkVerdict(results)
        speech_frames == Cardinality({i \in 1..Len(results) : results[i].is_speech})
    IN IF results # <<>> /\ new_is_speaking /\ ~s.is_speaking
       THEN [ session |-> [s EXCEPT !.is_speaking = TRUE,
                                    !.speech_start_time = timestamp],
              result  |-> [ event      |-> "speech_start",
                            timestamp  |-> timestamp,
                            confidence |-> <<speech_frames, Len(results)>>,
                            session_id |-> s.session_id ] ]
       ELSE IF results # <<>> /\ ~new_is_speaking /\ s.is_speaking
       THEN [ session |-> [s EXCEPT !.is_speaking = FALSE,
                                    !.speech_end_time = timestamp],
              result  |-> [ event       |-> "speech_end",
                            timestamp   |-> timestamp,
                            duration_ms |-> timestamp - s.speech_end_time,
                            session_id  |-> s.session_id ] ]
       ELSE [ session |-> s,
              result  |-> [ event       |-> "vad_update",
                            timestamp   |-> timestamp,
                            is_speaking |-> s.is_speaking,
                            session_id  |-> s.session_id ] ]

\* Lines 131-164, given `processed`, what the frame loop left: the state
\* transition and the result returned.
chunk_result(processed, timestamp) ==
    LET s == processed.session
        results == processed.results
        new_is_speaking == ChunkVerdict(results)
        speech_frames == Cardinality({i \in 1..Len(results) : results[i].is_speech})
    IN IF results # <<>> /\ new_is_speaking /\ ~s.is_speaking
       THEN [ session |-> [s EXCEPT !.is_speaking = TRUE,
                                    !.speech_start_time = timestamp],
              result  |-> [ event      |-> "speech_start",
                            timestamp  |-> timestamp,
                            confidence |-> <<speech_frames, Len(results)>>,
                            session_id |-> s.session_id ] ]
       ELSE IF results # <<>> /\ ~new_is_speaking /\ s.is_speaking
       THEN [ session |-> [s EXCEPT !.is_speaking = FALSE,
                                    !.speech_end_time = timestamp],
              result  |-> [ event       |-> "speech_end",
                            timestamp   |-> timestamp,
                            duration_ms |-> timestamp - s.speech_start_time,
                            session_id  |-> s.session_id ] ]
       ELSE [ session |-> s,
              result  |-> [ event       |-> "vad_update",
                            timestamp   |-> timestamp,
                            is_speaking |-> s.is_speaking,
                            session_id  |-> s.session_id ] ]

\* process_audio_chunk(audio_data) at wall-clock time t.
process_audio_chunk(s, audio_data, t) ==
    LET s1 == update_activity(s, t) IN
    IF ~audio_data.valid
    THEN [session |-> s1, result |-> [error |-> "Invalid audio data format"]]
    ELSE chunk_result(process_frames(s1, CompleteFrames(audio_data, s1.frame_size), t, t), t)

\* UserSession.force_recalibration at wall-clock time t.
session_force_recalibration(s, t) ==
    [s EXCEPT !.audio_service = force_recalibration(@, t).svc]

\* Variant: the secondary detector is constructed anew on every update.
update_vad_config_always_rebuilding(s, config) ==
    IF DOMAIN config = {} THEN s
    ELSE LET merged == DictUpdate(s.config, config) IN
         [s EXCEPT
            !.config = merged,
            !.webrtc_vad = IF merged.use_webrtc_vad
                           THEN Vad(merged.aggressiveness, s.vads_built + 1) ELSE None,
            !.vads_built = IF merged.use_webrtc_vad THEN @ + 1 ELSE @,
            !.audio_service = IF "rms_vad_config" \in DOMAIN config
                              THEN update_config(@, config.rms_vad_config) ELSE @]

\* update_vad_config(config)
update_vad_config(s, config) ==
    IF DOMAIN config = {} THEN s
    ELSE LET merged == DictUpdate(s.config, config)
             changed == \/ merged.use_webrtc_vad # s.config.use_webrtc_vad
                        \/ merged.aggressiveness # s.config.aggressiveness
             rebuilt == changed /\ merged.use_webrtc_vad
         IN [s EXCEPT
               !.config = merged,
               !.webrtc_vad = IF changed
                              THEN IF merged.use_webrtc_vad
                                   THEN Vad(merged.aggressiveness, s.vads_built + 1)
                                   ELSE None
                              ELSE @,
               !.vads_built = IF rebuilt THEN @ + 1 ELSE @,
               !.audio_service = IF "rms_vad_config" \in DOMAIN config
                                 THEN update_config(@, config.rms_vad_config) ELSE @]

\* AudioAnalysisService.get_debug_state: None unless debug mode is on.
get_debug_state(s) ==
    IF ~s.config.debug THEN None
    ELSE [ config |-> s.config, samples |-> s.samples, noise_floor |-> s.noise_floor,
           std_dev |-> s.std_dev, sensitivity_factor |-> s.sensitivity_factor,
           threshold |-> get_current_threshold(s), is_speech |-> s.last_is_speech,
           consecutive_speech_frames |-> s.consecutive_speech_frames,
           consecutive_silence_frames |-> s.consecutive_silence_frames,
           calibration_complete |-> s.calibration_complete,
           is_calibrating |-> s.is_calibrating ]

\* UserSession.get_debug_state; `rms_debug or {}` is the empty record.
session_get_debug_state(s) ==
    LET rms_debug == get_debug_state(s.audio_service) IN
    [ session_id    |-> s.session_id,
      created_at    |-> s.created_at,
      last_activity |-> s.last_activity,
      is_speaking   |-> s.is_speaking,
      total_frames  |-> s.total_frames,
      speech_frames |-> s.speech_frames,
      rms_vad       |-> IF rms_debug = None THEN <<>> ELSE rms_debug,
      webrtc_vad    |-> [ enabled |-> s.config.use_webrtc_vad,
                          aggressiveness |-> IF s.config.use_webrtc_vad
                                             THEN s.config.aggressiveness ELSE None ],
      ensemble      |-> [ rms_weight |-> s.config.rms_weight,
                          webrtc_weight |-> s.config.webrtc_weight ],
      config        |-> s.config ]

----------------------------------------------------------------------------
(* SocketVADService (socket_vad_service.py) *)

\* A session id that is absent or empty (`not session_id`).
NoId == ""

\* SocketVADService(): `sessions` is the dict, `order` the insertion order of its
\* keys, which iteration follows.
NewRegistry ==
    [ config   |-> DEFAULT_SOCKET_VAD_CONFIG,
      sessions |-> [id \in {} |-> None],
      order    |-> <<>> ]

DictSet(d, key, value) == [k \in DOMAIN d \cup {key} |-> IF k = key THEN value ELSE d[k]]

DictDel(d, key) == [k \in DOMAIN d \ {key} |-> d[k]]

\* self.sessions[session_id] = session
Register(reg, session_id, session) ==
    [reg EXCEPT !.sessions = DictSet(@, session_id, session),
                !.order = IF session_id \in DOMAIN reg.sessions THEN @
                          ELSE Append(@, session_id)]

\* del self.sessions[session_id], for a key that is there
Unregister(reg, session_id) ==
    [reg EXCEPT !.sessions = DictDel(@, session_id),
                !.order = SelectSeq(@, LAMBDA k : k # session_id)]

\* Variant: a session is constructed and registered whether or not the id is known.
get_or_create_always(reg, session_id, t, obj) ==
    Register(reg, session_id, NewUserSession(session_id, reg.config, t, obj))

\* Lines 333-335 of get_or_create_session, for the id it works with, at
\* wall-clock time t; obj is the identity a new session gets.
get_or_create_check(reg, session_id, t, obj) ==
    IF session_id \notin DOMAIN reg.sessions
    THEN Register(reg, session_id, NewUserSession(session_id, reg.config, t, obj))
    ELSE reg

get_session_count(reg) == Cardinality(DOMAIN reg.sessions)

\* Variant: get_session hands out a new session for an id that is not registered.
get_session_or_new(reg, session_id) ==
    IF session_id \in DOMAIN reg.sessions THEN reg.sessions[session_id]
    ELSE NewUserSession(session_id, reg.config, 0, 0)

\* self.sessions.get(session_id)
get_session(reg, session_id) ==
    IF session_id \in DOMAIN reg.sessions THEN reg.sessions[session_id] ELSE None

\* remove_session, executed without interruption.
remove_session(reg, session_id) ==
    IF session_id \in DOMAIN reg.sessions
    THEN [registry |-> Unregister(reg, session_id), returned |-> TRUE]
    ELSE [registry |-> reg, returned |-> FALSE]

\* The sleep of the cleanup thread (lines 376, 380), in ms.
SweepSleepMs == 60000

\* The run the next add_audio_sample call can extend.  `above` (`silent`) counts
\* the latest consecutive add_audio_sample calls that were processed in ACTIVE with
\* a level above (at or below) the threshold; a call processed in CALIBRATING ends
\* both runs, and so does force_recalibration, which hands the next sample to the
\* calibration.  from_speech: the estimator was in the speech state when the run
\* began.  n: consecutive_frames_threshold at the run's first call; stable: every
\* call of the run saw that same value.  prev: how the call before the latest one
\* was classified.  quiet_cal: the calibration that made the estimator ACTIVE
\* collected Quiet samples only.  since: the timestamp of the run's first call.
NoRun == [above |-> 0, silent |-> 0, from_speech |-> FALSE, n |-> 0, stable |-> TRUE,
          prev |-> "other", quiet_cal |-> FALSE, since |-> 0]

RunKind(r) == IF r.above > 0 THEN "above" ELSE IF r.silent > 0 THEN "silent" ELSE "other"

\* The run after an add_audio_sample(level) call that took the object from s to post.
NextRun(s, level, post) ==
    LET cft == s.config.consecutive_frames_threshold IN
    IF s.is_calibrating
    THEN [NoRun EXCEPT !.quiet_cal = /\ ~post.is_calibrating
                                     /\ \A i \in 1..Len(post.samples) :
                                            post.samples[i] = Quiet]
    ELSE IF level * FactorScale > get_current_threshold(s)
    THEN IF run.above = 0
         THEN [run EXCEPT !.above = 1, !.silent = 0, !.from_speech = s.last_is_speech,
                          !.n = cft, !.stable = TRUE, !.prev = RunKind(run),
                          !.since = now]
         ELSE [run EXCEPT !.above = @ + 1, !.stable = @ /\ cft = run.n,
                          !.prev = "above"]
    ELSE IF run.silent = 0
         THEN [run EXCEPT !.above = 0, !.silent = 1, !.from_speech = s.last_is_speech,
                          !.n = cft, !.stable = TRUE, !.prev = RunKind(run),
                          !.since = now]
         ELSE [run EXCEPT !.silent = @ + 1, !.stable = @ /\ cft = run.n,
                          !.prev = "silent"]

\* An audio payload that is absent or empty (`not audio_data`).
NoAudio == [empty |-> TRUE]

\* A config that is absent or empty (`not config`).
NoConfig == [k \in {} |-> 0]

Idle == [pc |-> "idle"]

NoReply == [name |-> "none"]

ErrorReply(message) == [name |-> "error", data |-> [message |-> message]]

\* What a handler notes of its request when it begins: `known`, the id is
\* registered; sessions_before, the registered ids; obj_before, the identity of
\* the session registered under the id (0: none); objects_before, the number of
\* UserSession objects constructed so far.
Request(op, given, session_id, audio, config) ==
    [ op |-> op, given |-> given, session_id |-> session_id, audio |-> audio,
      config |-> config,
      known |-> session_id \in DOMAIN socket_vad_service.sessions,
      sessions_before |-> DOMAIN socket_vad_service.sessions,
      obj_before |-> IF session_id \in DOMAIN socket_vad_service.sessions
                     THEN socket_vad_service.sessions[session_id].obj ELSE 0,
      objects_before |-> heap.objects ]

\* The request a handler has completed with its last step: failed, an exception
\* ended it; returned, what remove_session returned; obj, the identity of the
\* session it obtained (0: none); sessions_after, the registered ids after its
\* last step.
Completed(h, failed, returned, obj) ==
    [ op |-> h.op, given |-> h.given, session_id |-> h.session_id, audio |-> h.audio,
      config |-> h.config, known |-> h.known,
      sessions_before |-> h.sessions_before,
      obj_before |-> h.obj_before, objects_before |-> h.objects_before,
      failed |-> failed, returned |-> returned, obj |-> obj,
      sessions_after |-> DOMAIN socket_vad_service'.sessions ]

NoRequest ==
    [ op |-> "none", given |-> NoId, session_id |-> NoId, audio |-> NoAudio,
      config |-> NoConfig, known |-> FALSE, sessions_before |-> {},
      obj_before |-> 0, objects_before |-> 0,
      failed |-> FALSE, returned |-> FALSE, obj |-> 0, sessions_after |-> {} ]

Init ==
    /\ now = 0
    /\ svc = NewService(0).svc
    /\ events = NewService(0).events
    /\ result = NoResult
    /\ call = [op |-> "init", level |-> 0, timestamp |-> 0,
               was_calibrating |-> FALSE, was_speech |-> FALSE, elapsed |-> FALSE,
               in_flight |-> 0]
    /\ run = NoRun
    /\ listeners = NoListeners
    /\ delivered = NothingDelivered
    /\ socket_vad_service = NewRegistry
    /\ sweep = [pc |-> "sleep", wake |-> 0, outcome |-> "none", now |-> 0, size |-> 0,
                visited |-> {}, expired_sessions |-> <<>>, shutdown |-> FALSE]
    /\ handler = Idle
    /\ req = NoRequest
    /\ reply = NoReply
    /\ heap = [objects |-> 0, uuids |-> {}]

\* add_audio_sample(level, timestamp) with the wall clock as timestamp (the
\* default, and what UserSession passes).
AddAudioSampleWithin(levels, maxCalibration, maxActive, maxConsecutive) ==
    \E level \in levels : \E r \in {add_audio_sample(svc, level, now, now)} :
        /\ Len(r.svc.samples) <= (IF svc.is_calibrating THEN maxCalibration ELSE maxActive)
        /\ r.svc.consecutive_speech_frames <= maxConsecutive
        /\ r.svc.consecutive_silence_frames <= maxConsecutive
        /\ svc' = r.svc
        /\ result' = r.result
        /\ events' = r.events
        /\ call' = [op |-> "add_audio_sample", level |-> level, timestamp |-> now,
                    was_calibrating |-> svc.is_calibrating,
                    was_speech |-> svc.last_is_speech,
                    elapsed |-> now - svc.last_calibration_time
                                  >= svc.config.calibration_duration_ms,
                    in_flight |-> 0]
        /\ run' = NextRun(svc, level, r.svc)
        /\ UNCHANGED <<now, listenerVars, registryVars>>

ForceRecalibration ==
    \E r \in {force_recalibration(svc, now)} :
    /\ svc' = r.svc
    /\ events' = r.events
    /\ result' = NoResult
    /\ call' = [op |-> "force_recalibration", level |-> 0, timestamp |-> now,
                was_calibrating |-> svc.is_calibrating,
                was_speech |-> svc.last_is_speech, elapsed |-> FALSE,
                in_flight |-> IF svc.is_calibrating THEN Len(svc.samples) ELSE 0]
    /\ run' = NoRun
    /\ UNCHANGED <<now, listenerVars, registryVars>>

\* update_config returns nothing and emits nothing: result, events and call keep
\* describing the last add_audio_sample or force_recalibration call.
UpdateConfigFrom(partials) ==
    \E partial \in partials :
        /\ svc' = update_config(svc, partial)
        /\ UNCHANGED <<now, result, events, call, run, listenerVars, registryVars>>

TickWithin(maxTicks) ==
    /\ now + TickMs <= maxTicks * TickMs
    /\ now' = now + TickMs
    /\ UNCHANGED <<estimatorVars, listenerVars, registryVars>>

----------------------------------------------------------------------------
(* Spec: every call, short streams.  The hysteresis counters are bounded by *)
(* the number of samples the bounds admit.                                  *)

AddAudioSample ==
    AddAudioSampleWithin(Levels, MaxSamples, MaxSamples, (MaxTicks + 1) * MaxSamples)

UpdateConfig == UpdateConfigFrom(PartialConfigs)

Tick == TickWithin(MaxTicks)

Next ==
    \/ AddAudioSample
    \/ ForceRecalibration
    \/ UpdateConfig
    \/ Tick

Spec == Init /\ [][Next]_vars

----------------------------------------------------------------------------
(* SpecAdapt: every call, long streams over a history that max_sample_history *)
(* caps at the 10 samples _adjust_sensitivity_factor looks at.                *)

AdaptConfigs == { [max_sample_history |-> 10] }

AddAudioSampleAdapt ==
    AddAudioSampleWithin(Levels, AdaptCalibrationSamples, AdaptSamples, AdaptConsecutive)

UpdateConfigAdapt == UpdateConfigFrom(AdaptConfigs)

TickAdapt == TickWithin(AdaptTicks)

NextAdapt ==
    \/ AddAudioSampleAdapt
    \/ ForceRecalibration
    \/ UpdateConfigAdapt
    \/ TickAdapt

SpecAdapt == Init /\ [][NextAdapt]_vars

----------------------------------------------------------------------------
(* SpecConfig: every call, short streams, with the configuration keys a     *)
(* client changes at run time: the hysteresis length, debug mode and a      *)
(* history shorter than what a calibration collects.                        *)

ConfigPartials ==
    { [consecutive_frames_threshold |-> 5],
      [debug |-> TRUE],
      [max_sample_history |-> 2] }

AddAudioSampleConfig ==
    AddAudioSampleWithin(Levels, ConfigSamples, ConfigSamples, ConfigSamples)

UpdateConfigConfig == UpdateConfigFrom(ConfigPartials)

TickConfig == TickWithin(ConfigTicks)

NextConfig ==
    \/ AddAudioSampleConfig
    \/ ForceRecalibration
    \/ UpdateConfigConfig
    \/ TickConfig

SpecConfig == Init /\ [][NextConfig]_vars

----------------------------------------------------------------------------
(* SpecStable: a quiet room, levels 0.010 and 0.012, fed for longer than the   *)
(* 10 samples _adjust_sensitivity_factor looks at.                             *)

StableLevels == {Quiet, Quiet + 2}

AddAudioSampleStable ==
    AddAudioSampleWithin(StableLevels, 1, StableSamples, StableSamples)

TickStable == TickWithin(StableTicks)

NextStable ==
    \/ AddAudioSampleStable
    \/ ForceRecalibration
    \/ TickStable

SpecStable == Init /\ [][NextStable]_vars

----------------------------------------------------------------------------
(* SpecSilence: add_audio_sample and force_recalibration over a clock that    *)
(* passes recalibration_interval_ms, so that a silence can outlast            *)
(* silence_duration_for_recal_ms after the interval has passed.               *)

AddAudioSampleSilence ==
    AddAudioSampleWithin(Levels, SilenceSamples, SilenceSamples, SilenceSamples)

TickSilence == TickWithin(SilenceTicks)

NextSilence ==
    \/ AddAudioSampleSilence
    \/ ForceRecalibration
    \/ TickSilence

SpecSilence == Init /\ [][NextSilence]_vars

----------------------------------------------------------------------------
(* Properties of the estimator *)

\* SpecEvents, the estimator with listeners: a client registers at most
\* EventsListeners callbacks, each at most once per event kind, feeds at most
\* EventsSamples samples, and the clock steps EventsTicks times.  `delivered` is
\* what the latest API call delivered to the lists as they are now; `events` holds
\* the events that reached _emit_event.
EventsListeners == 2
EventsSamples == 2
EventsTicks == 1

ListenedKinds == {CALIBRATION_COMPLETE, SPEECH_START, THRESHOLD_CHANGED}

\* The registrations: an event kind and a position in its list.
Registered(ls) == {<<e, i>> \in (DOMAIN ls) \X (1..Cardinality(Callbacks)) : i <= Len(ls[e])}

AddEventListener ==
    \E event \in ListenedKinds, callback \in Callbacks :
        /\ \A i \in 1..Len(listeners[event]) : listeners[event][i] # callback
        /\ Cardinality(Registered(listeners)) < EventsListeners
        /\ listeners' = add_event_listener(listeners, event, callback)
        /\ delivered' = NothingDelivered
        /\ UNCHANGED <<now, estimatorVars, registryVars>>

RemoveEventListener ==
    \E event \in ListenedKinds, callback \in Callbacks :
        /\ \E i \in 1..Len(listeners[event]) : listeners[event][i] = callback
        /\ listeners' = remove_event_listener(listeners, event, callback)
        /\ delivered' = NothingDelivered
        /\ UNCHANGED <<now, estimatorVars, registryVars>>

\* add_audio_sample(level) with the listeners called; when a callback raises, the
\* exception leaves add_audio_sample and the caller gets no result.
AddAudioSampleEvents ==
    \E level \in Levels : \E r \in {add_audio_sample(svc, level, now, now)} :
    \E d \in {deliver(listeners, r.events, 1)} :
        /\ Len(r.svc.samples) <= EventsSamples
        /\ svc' = IF d.raised THEN AbortedSample(svc, r, d, level, now, now) ELSE r.svc
        /\ result' = IF d.raised THEN NoResult ELSE r.result
        /\ events' = IF d.raised THEN SubSeq(r.events, 1, d.failed_at) ELSE r.events
        /\ delivered' = [invoked |-> d.invoked, raised |-> d.raised]
        /\ call' = [op |-> "add_audio_sample", level |-> level, timestamp |-> now,
                    was_calibrating |-> svc.is_calibrating,
                    was_speech |-> svc.last_is_speech,
                    elapsed |-> now - svc.last_calibration_time
                                  >= svc.config.calibration_duration_ms,
                    in_flight |-> 0]
        /\ run' = NextRun(svc, level, svc')
        /\ UNCHANGED <<now, listeners, registryVars>>

\* force_recalibration() with the listeners called; calibration-start is emitted
\* after the state is reset (line 86).
ForceRecalibrationEvents ==
    \E r \in {force_recalibration(svc, now)} : \E d \in {deliver(listeners, r.events, 1)} :
        /\ svc' = r.svc
        /\ result' = NoResult
        /\ events' = r.events
        /\ delivered' = [invoked |-> d.invoked, raised |-> d.raised]
        /\ call' = [op |-> "force_recalibration", level |-> 0, timestamp |-> now,
                    was_calibrating |-> svc.is_calibrating,
                    was_speech |-> svc.last_is_speech, elapsed |-> FALSE,
                    in_flight |-> IF svc.is_calibrating THEN Len(svc.samples) ELSE 0]
        /\ run' = NoRun
        /\ UNCHANGED <<now, listeners, registryVars>>

TickEvents == TickWithin(EventsTicks)

NextEvents ==
    \/ AddEventListener
    \/ RemoveEventListener
    \/ AddAudioSampleEvents
    \/ ForceRecalibrationEvents
    \/ TickEvents

SpecEvents == Init /\ [][NextEvents]_vars

----------------------------------------------------------------------------
(* The socket handlers of api.py and the cleanup thread of SocketVADService.

   The handlers run on one event loop, one at a time; the cleanup thread is a
   thread of its own and no lock guards `sessions`, so its steps interleave with
   the steps of a handler.  A handler that reads `sessions` twice is two steps.
   `handler` is the handler in progress, `req` the request completed last,
   `reply` what was emitted to the client last, `heap` the number of UserSession
   objects constructed and the uuids issued. *)

\* The ids uuid4 can return; it returns one it has not returned before.
Uuids == {"u1"}

SessionOf(session_id) == socket_vad_service.sessions[session_id]

\* get_or_create_session up to line 335, for handle_init_vad (lines 94-97) and
\* handle_process_audio (line 127): the membership test and the insertion.
GetOrCreateBegin(op, given, audio, maxObjects) ==
    \E session_id \in (IF given = NoId THEN Uuids \ heap.uuids ELSE {given}) :
        LET known == session_id \in DOMAIN socket_vad_service.sessions IN
        /\ ~known => heap.objects < maxObjects
        /\ socket_vad_service' =
               get_or_create_check(socket_vad_service, session_id, now, heap.objects + 1)
        /\ heap' = [objects |-> IF known THEN heap.objects ELSE heap.objects + 1,
                    uuids   |-> IF given = NoId THEN heap.uuids \cup {session_id}
                                ELSE heap.uuids]
        /\ handler' = [pc |-> "lookup", request |-> Request(op, given, session_id, audio, NoConfig)]
        /\ UNCHANGED <<now, estimatorVars, listenerVars, sweep, req, reply>>

\* handle_init_vad, first step.
HandleInitVadBegin(ids, maxObjects) ==
    /\ handler = Idle
    /\ \E given \in ids \cup {NoId} : GetOrCreateBegin("init_vad", given, NoAudio, maxObjects)

\* handle_init_vad from line 337 of get_or_create_session on: self.sessions[session_id]
\* raises KeyError when the id is no longer there, and the handler emits an error.
HandleInitVadEnd ==
    /\ handler.pc = "lookup"
    /\ handler.request.op = "init_vad"
    /\ UNCHANGED socket_vad_service
    /\ LET session_id == handler.request.session_id
           present == session_id \in DOMAIN socket_vad_service.sessions
       IN /\ reply' = IF present
                      THEN [ name |-> "vad_initialized",
                             data |-> [ session_id    |-> session_id,
                                        noise_profile |->
                                            get_noise_profile(SessionOf(session_id).audio_service),
                                        config        |-> SessionOf(session_id).config ] ]
                      ELSE ErrorReply("Failed to initialize VAD")
          /\ req' = Completed(handler.request, ~present, FALSE,
                              IF present THEN SessionOf(session_id).obj ELSE 0)
    /\ handler' = Idle
    /\ UNCHANGED <<now, estimatorVars, listenerVars, sweep, heap>>

\* handle_process_audio, lines 118-123: a field is missing.
HandleProcessAudioMissing(ids, audios) ==
    /\ handler = Idle
    /\ \E given \in ids \cup {NoId}, audio \in audios \cup {NoAudio} :
        /\ given = NoId \/ audio = NoAudio
        /\ UNCHANGED socket_vad_service
        /\ reply' = ErrorReply("Missing session_id or audio data")
        /\ req' = Completed(Request("process_audio", given, given, audio, NoConfig),
                            FALSE, FALSE, 0)
    /\ UNCHANGED <<now, estimatorVars, listenerVars, sweep, handler, heap>>

\* handle_process_audio, first step; a session takes at most maxFrames frames.
HandleProcessAudioBegin(ids, audios, maxObjects, maxFrames) ==
    /\ handler = Idle
    /\ \E given \in ids, audio \in audios :
        /\ LET session == get_session(socket_vad_service, given)
               taken == IF session = None THEN 0 ELSE session.total_frames
           IN audio.valid => taken + Len(audio.frames) <= maxFrames
        /\ GetOrCreateBegin("process_audio", given, audio, maxObjects)

\* handle_process_audio from line 337 of get_or_create_session on: the lookup,
\* process_audio_chunk, and the emit of lines 130-133.
HandleProcessAudioEnd ==
    /\ handler.pc = "lookup"
    /\ handler.request.op = "process_audio"
    /\ LET session_id == handler.request.session_id IN
       IF session_id \in DOMAIN socket_vad_service.sessions
       THEN \E p \in {process_audio_chunk(SessionOf(session_id), handler.request.audio, now)} :
               /\ socket_vad_service' =
                      [socket_vad_service EXCEPT !.sessions[session_id] = p.session]
               /\ reply' = [ name |-> IF "event" \in DOMAIN p.result THEN p.result.event
                                      ELSE "vad_result",
                             data |-> p.result ]
               /\ req' = Completed(handler.request, FALSE, FALSE, SessionOf(session_id).obj)
       ELSE /\ UNCHANGED socket_vad_service
            /\ reply' = ErrorReply("Failed to process audio")
            /\ req' = Completed(handler.request, TRUE, FALSE, 0)
    /\ handler' = Idle
    /\ UNCHANGED <<now, estimatorVars, listenerVars, sweep, heap>>

\* Variant: the sessions and the registry share one configuration dict, so that an
\* update through one session is an update of all.
HandleUpdateVadConfigShared(ids, configs) ==
    /\ handler = Idle
    /\ \E given \in ids \cup {NoId}, config \in configs \cup {NoConfig} :
        LET session == get_session(socket_vad_service, given) IN
        /\ IF given = NoId \/ config = NoConfig
           THEN /\ reply' = ErrorReply("Missing session_id or config")
                /\ UNCHANGED socket_vad_service
           ELSE IF session = None
           THEN /\ reply' = ErrorReply("Session not found")
                /\ UNCHANGED socket_vad_service
           ELSE \E updated \in {update_vad_config(session, config)} :
                /\ socket_vad_service' =
                       [socket_vad_service EXCEPT
                           !.config = DictUpdate(@, config),
                           !.sessions = [id \in DOMAIN @ |->
                                           IF id = given THEN updated
                                           ELSE [@[id] EXCEPT !.config = DictUpdate(@, config)]]]
                /\ reply' = [ name |-> "config_updated",
                              data |-> [session_id |-> given, config |-> updated.config] ]
        /\ req' = Completed(Request("update_vad_config", given, given, NoAudio, config),
                            FALSE, FALSE, IF session = None THEN 0 ELSE session.obj)
    /\ UNCHANGED <<now, estimatorVars, listenerVars, sweep, handler, heap>>

\* handle_update_vad_config
HandleUpdateVadConfig(ids, configs) ==
    /\ handler = Idle
    /\ \E given \in ids \cup {NoId}, config \in configs \cup {NoConfig} :
        LET session == get_session(socket_vad_service, given) IN
        /\ IF given = NoId \/ config = NoConfig
           THEN /\ reply' = ErrorReply("Missing session_id or config")
                /\ UNCHANGED socket_vad_service
           ELSE IF session = None
           THEN /\ reply' = ErrorReply("Session not found")
                /\ UNCHANGED socket_vad_service
           ELSE \E updated \in {update_vad_config(session, config)} :
                /\ socket_vad_service' =
                       [socket_vad_service EXCEPT !.sessions[given] = updated]
                /\ reply' = [ name |-> "config_updated",
                              data |-> [session_id |-> given, config |-> updated.config] ]
        /\ req' = Completed(Request("update_vad_config", given, given, NoAudio, config),
                            FALSE, FALSE, IF session = None THEN 0 ELSE session.obj)
    /\ UNCHANGED <<now, estimatorVars, listenerVars, sweep, handler, heap>>

\* handle_force_recalibration
HandleForceRecalibration(ids) ==
    /\ handler = Idle
    /\ \E given \in ids \cup {NoId} :
        LET session == get_session(socket_vad_service, given) IN
        /\ IF given = NoId
           THEN /\ reply' = ErrorReply("Missing session_id")
                /\ UNCHANGED socket_vad_service
           ELSE IF session = None
           THEN /\ reply' = ErrorReply("Session not found")
                /\ UNCHANGED socket_vad_service
           ELSE /\ socket_vad_service' =
                       [socket_vad_service EXCEPT
                           !.sessions[given] = session_force_recalibration(session, now)]
                /\ reply' = [ name |-> "recalibration_started",
                              data |-> [session_id |-> given, timestamp |-> now] ]
        /\ req' = Completed(Request("force_recalibration", given, given, NoAudio, NoConfig),
                            FALSE, FALSE, IF session = None THEN 0 ELSE session.obj)
    /\ UNCHANGED <<now, estimatorVars, listenerVars, sweep, handler, heap>>

\* handle_get_debug_state
HandleGetDebugState(ids) ==
    /\ handler = Idle
    /\ \E given \in ids \cup {NoId} :
        LET session == get_session(socket_vad_service, given) IN
        /\ UNCHANGED socket_vad_service
        /\ reply' = IF given = NoId THEN ErrorReply("Missing session_id")
                    ELSE IF session = None THEN ErrorReply("Session not found")
                    ELSE [name |-> "debug_state", data |-> session_get_debug_state(session)]
        /\ req' = Completed(Request("get_debug_state", given, given, NoAudio, NoConfig),
                            FALSE, FALSE, IF session = None THEN 0 ELSE session.obj)
    /\ UNCHANGED <<now, estimatorVars, listenerVars, sweep, handler, heap>>

\* handle_disconnect up to the membership test of remove_session (line 397); it
\* ends there when the id is missing or not registered.
HandleDisconnectBegin(ids) ==
    /\ handler = Idle
    /\ UNCHANGED socket_vad_service
    /\ \E given \in ids \cup {NoId} :
        IF given # NoId /\ given \in DOMAIN socket_vad_service.sessions
        THEN /\ handler' = [pc |-> "delete",
                            request |-> Request("disconnect", given, given, NoAudio, NoConfig)]
             /\ UNCHANGED req
        ELSE /\ req' = Completed(Request("disconnect", given, given, NoAudio, NoConfig),
                                 FALSE, FALSE, 0)
             /\ UNCHANGED handler
    /\ UNCHANGED <<now, estimatorVars, listenerVars, sweep, reply, heap>>

\* handle_disconnect from line 398 on: `del self.sessions[session_id]` raises
\* KeyError when the id is no longer there, and nothing in the handler catches it.
HandleDisconnectEnd ==
    /\ handler.pc = "delete"
    /\ LET session_id == handler.request.session_id IN
       IF session_id \in DOMAIN socket_vad_service.sessions
       THEN /\ socket_vad_service' = Unregister(socket_vad_service, session_id)
            /\ req' = Completed(handler.request, FALSE, TRUE, 0)
       ELSE /\ UNCHANGED socket_vad_service
            /\ req' = Completed(handler.request, TRUE, FALSE, 0)
    /\ handler' = Idle
    /\ UNCHANGED <<now, estimatorVars, listenerVars, sweep, reply, heap>>

\* _cleanup_expired_sessions.  `sweep` is the thread: pc, where it is; wake, when
\* its sleep ends; now, the clock read of line 361; size, the size of the dict
\* when the iteration of line 363 began; visited, the keys the iteration has
\* yielded; expired_sessions, the list of lines 362-365 and what is left of
\* it in the loop of line 368; outcome, how the latest pass ended; shutdown, the
\* owner of the service has asked for the thread to stop.  pc is "sleep", "scan"
\* or "delete": `while True` has no break and no return, and `except Exception`
\* resumes the loop, so the thread's function has no point "done" after the loop.
Sleeping(outcome) ==
    [sweep EXCEPT !.pc = "sleep", !.wake = now + SweepSleepMs, !.outcome = outcome,
                  !.visited = {}, !.expired_sessions = <<>>]

\* Lines 359-363: the pass begins and the iteration over the dict is set up.
SweepBegin ==
    /\ sweep.pc = "sleep"
    /\ now >= sweep.wake
    /\ sweep' = [sweep EXCEPT !.pc = "scan", !.now = now,
                              !.size = get_session_count(socket_vad_service),
                              !.visited = {}, !.expired_sessions = <<>>]
    /\ UNCHANGED <<now, estimatorVars, listenerVars, socket_vad_service, handler, req,
                   reply, heap>>

\* Lines 362-365, one step of the iteration: RuntimeError when the dict changed
\* size since the iteration began (caught at line 378); else the next key in
\* insertion order, kept when its session is expired; else the list is complete.
SweepScan ==
    /\ sweep.pc = "scan"
    /\ LET pending == SelectSeq(socket_vad_service.order, LAMBDA k : k \notin sweep.visited)
       IN sweep' =
           IF get_session_count(socket_vad_service) # sweep.size
           THEN Sleeping("RuntimeError")
           ELSE IF pending = <<>> THEN [sweep EXCEPT !.pc = "delete"]
           ELSE [sweep EXCEPT
                   !.visited = @ \cup {Head(pending)},
                   !.expired_sessions = IF is_expired(SessionOf(Head(pending)), now)
                                        THEN Append(@, Head(pending)) ELSE @]
    /\ UNCHANGED <<now, estimatorVars, listenerVars, socket_vad_service, handler, req,
                   reply, heap>>

\* Lines 368-373, one turn of the loop: KeyError when the id is no longer there
\* (caught at line 378).
SweepDelete ==
    /\ sweep.pc = "delete"
    /\ sweep.expired_sessions # <<>>
    /\ LET sid == Head(sweep.expired_sessions) IN
       IF sid \in DOMAIN socket_vad_service.sessions
       THEN /\ socket_vad_service' = Unregister(socket_vad_service, sid)
            /\ sweep' = [sweep EXCEPT !.expired_sessions = Tail(@)]
       ELSE /\ sweep' = Sleeping("KeyError")
            /\ UNCHANGED socket_vad_service
    /\ UNCHANGED <<now, estimatorVars, listenerVars, handler, req, reply, heap>>

\* Line 376: the pass is over.
SweepSleep ==
    /\ sweep.pc = "delete"
    /\ sweep.expired_sessions = <<>>
    /\ sweep' = Sleeping("complete")
    /\ UNCHANGED <<now, estimatorVars, listenerVars, socket_vad_service, handler, req,
                   reply, heap>>

\* The wall clock advances by `step` between requests and passes, which take far
\* less than a step.
ClockStep(step, maxTicks) ==
    /\ handler = Idle
    /\ sweep.pc = "sleep"
    /\ now + step <= maxTicks * step
    /\ now' = now + step
    /\ UNCHANGED <<estimatorVars, listenerVars, registryVars>>

\* SpecRegistry, the registry under the cleanup thread: init_vad, process_audio and
\* disconnect for one client-chosen id and one generated id, at most
\* RegistryObjects sessions constructed, a clock that steps RegistryTicks times by
\* the session timeout, payloads that carry no whole frame.
RegistryIds == {"a"}
RegistryObjects == 2
RegistryTicks == 2
RegistryStep == DEFAULT_SOCKET_VAD_CONFIG.session_timeout_ms
RegistryAudios == { [valid |-> FALSE, frames |-> <<>>, rest |-> 0],
                    [valid |-> TRUE, frames |-> <<>>, rest |-> 2] }

InitVadBeginRegistry == HandleInitVadBegin(RegistryIds, RegistryObjects)
ProcessAudioBeginRegistry ==
    HandleProcessAudioBegin(RegistryIds, RegistryAudios, RegistryObjects, 0)
DisconnectBeginRegistry == HandleDisconnectBegin(RegistryIds)
ClockStepRegistry == ClockStep(RegistryStep, RegistryTicks)

NextRegistry ==
    \/ InitVadBeginRegistry
    \/ HandleInitVadEnd
    \/ ProcessAudioBeginRegistry
    \/ HandleProcessAudioEnd
    \/ DisconnectBeginRegistry
    \/ HandleDisconnectEnd
    \/ SweepBegin
    \/ SweepScan
    \/ SweepDelete
    \/ SweepSleep
    \/ ClockStepRegistry

SpecRegistry == Init /\ [][NextRegistry]_vars

\* SpecShutdown, the registry torn down while its cleanup thread runs: init_vad
\* for one client-chosen id and one generated id, the cleanup thread, the clock of
\* SpecRegistry, and the owner's request to stop.  The service holds no stop flag,
\* event or join for its thread (lines 311-313 create it as a daemon and keep only
\* the Thread object), so the request changes nothing the thread reads.  The
\* thread is scheduled fairly and time passes.
RequestShutdown ==
    /\ handler = Idle
    /\ ~sweep.shutdown
    /\ sweep' = [sweep EXCEPT !.shutdown = TRUE]
    /\ UNCHANGED <<now, estimatorVars, listenerVars, socket_vad_service, handler, req,
                   reply, heap>>

NextShutdown ==
    \/ InitVadBeginRegistry
    \/ HandleInitVadEnd
    \/ RequestShutdown
    \/ SweepBegin
    \/ SweepScan
    \/ SweepDelete
    \/ SweepSleep
    \/ ClockStepRegistry

SpecShutdown ==
    /\ Init
    /\ [][NextShutdown]_vars
    /\ WF_vars(SweepBegin \/ SweepScan \/ SweepDelete \/ SweepSleep)
    /\ WF_vars(ClockStepRegistry)

\* SpecSession, one client's requests within the first sleep of the cleanup thread
\* (its first pass found the registry empty; SessionTicks steps of TickMs are less
\* than SweepSleepMs).  At most SessionObjects sessions are constructed, the clock
\* steps SessionTicks times, the payloads carry no whole frame.
SessionIds == {"a"}
SessionObjects == 2
SessionTicks == 1
SessionAudios == { [valid |-> FALSE, frames |-> <<>>, rest |-> 0],
                   [valid |-> TRUE, frames |-> <<>>, rest |-> 2] }

\* The configurations a client sends to update_vad_config.
SessionConfigs ==
    { [use_webrtc_vad |-> FALSE], [use_rms_vad |-> FALSE],
      [webrtc_weight |-> 30, rms_weight |-> 60] }

InitVadBeginSession == HandleInitVadBegin(SessionIds, SessionObjects)
ProcessAudioMissingSession == HandleProcessAudioMissing(SessionIds, SessionAudios)
ProcessAudioBeginSession ==
    HandleProcessAudioBegin(SessionIds, SessionAudios, SessionObjects, 0)
UpdateVadConfigSession == HandleUpdateVadConfig(SessionIds, SessionConfigs)
ForceRecalibrationSession == HandleForceRecalibration(SessionIds)
GetDebugStateSession == HandleGetDebugState(SessionIds)
DisconnectBeginSession == HandleDisconnectBegin(SessionIds)
ClockStepSession == ClockStep(TickMs, SessionTicks)

NextSession ==
    \/ InitVadBeginSession
    \/ HandleInitVadEnd
    \/ ProcessAudioMissingSession
    \/ ProcessAudioBeginSession
    \/ HandleProcessAudioEnd
    \/ UpdateVadConfigSession
    \/ ForceRecalibrationSession
    \/ GetDebugStateSession
    \/ DisconnectBeginSession
    \/ HandleDisconnectEnd
    \/ ClockStepSession

SpecSession == Init /\ [][NextSession]_vars

\* SpecFrames, one session's audio within the first sleep of the cleanup thread:
\* the session takes at most FramesTaken frames, in chunks of one or two, the
\* clock steps FramesTicks times, and the client configures the session before it
\* sends the first frame.
FramesTaken == 3
FramesTicks == 1

\* The frames a client sends: a level and what the secondary detector does with it.
FrameKinds ==
    { [level |-> Quiet, webrtc |-> "silence"], [level |-> Quiet, webrtc |-> "speech"],
      [level |-> Loud, webrtc |-> "speech"], [level |-> Loud, webrtc |-> "error"] }

\* The payloads: undecodable, a piece of a frame, a frame, a frame and a piece of
\* one, two frames.
FramesAudios ==
    { [valid |-> FALSE, frames |-> <<>>, rest |-> 0],
      [valid |-> TRUE, frames |-> <<>>, rest |-> 2],
      [valid |-> TRUE, frames |-> <<[level |-> Loud, webrtc |-> "speech"]>>, rest |-> 2] }
    \cup { [valid |-> TRUE, frames |-> <<f>>, rest |-> 0] : f \in FrameKinds }
    \cup { [valid |-> TRUE, frames |-> <<f, g>>, rest |-> 0] : f \in FrameKinds, g \in FrameKinds }

ProcessAudioBeginFrames == HandleProcessAudioBegin(SessionIds, FramesAudios, 1, FramesTaken)
UpdateVadConfigFrames ==
    /\ \A id \in DOMAIN socket_vad_service.sessions : SessionOf(id).total_frames = 0
    /\ HandleUpdateVadConfig(SessionIds, SessionConfigs)
ClockStepFrames == ClockStep(TickMs, FramesTicks)

NextFrames ==
    \/ ProcessAudioBeginFrames
    \/ HandleProcessAudioEnd
    \/ UpdateVadConfigFrames
    \/ ClockStepFrames

SpecFrames == Init /\ [][NextFrames]_vars

\* SpecTuning, one client retuning its session within the first sleep of the
\* cleanup thread: update_vad_config with partial configurations that set the
\* frame duration, the sample rate, the secondary detector's flag and
\* aggressiveness (to a new value and to the default one), the estimator's nested
\* configuration, or none of these.  A session constructs at most TuningVads
\* secondary detectors.
TuningVads == 3

TuningConfigs ==
    { [frame_duration_ms |-> 20], [sample_rate |-> 8000],
      [use_webrtc_vad |-> FALSE], [use_webrtc_vad |-> TRUE],
      [aggressiveness |-> 3], [aggressiveness |-> 2],
      [rms_vad_config |-> [consecutive_frames_threshold |-> 3]],
      [webrtc_weight |-> 30, rms_weight |-> 60] }

UpdateVadConfigTuning ==
    /\ HandleUpdateVadConfig(SessionIds, TuningConfigs)
    /\ \A id \in DOMAIN socket_vad_service'.sessions :
           socket_vad_service'.sessions[id].vads_built <= TuningVads

NextTuning ==
    \/ InitVadBeginSession
    \/ HandleInitVadEnd
    \/ UpdateVadConfigTuning
    \/ ForceRecalibrationSession
    \/ ClockStepSession

SpecTuning == Init /\ [][NextTuning]_vars

\* SpecHistory, one session's frame history within the first sleep of the cleanup
\* thread: the client first sends HistoryChunks payloads of HistoryChunk frames,
\* each frame of a payload of another level, and then at most HistoryTaken
\* payloads of one frame.
HistoryChunks == 10
HistoryChunk == 10
HistoryTaken == 3

HistoryAudios ==
    { [valid |-> TRUE, frames |-> <<f>>, rest |-> 0] : f \in FrameKinds }
    \cup { [valid |-> TRUE,
            frames |-> [i \in 1..HistoryChunk |-> [level |-> i, webrtc |-> "silence"]],
            rest |-> 0] }

ProcessAudioBeginHistory ==
    /\ HandleProcessAudioBegin(SessionIds, HistoryAudios, 1,
                               HistoryChunks * HistoryChunk + HistoryTaken)
    /\ LET session == get_session(socket_vad_service, handler'.request.session_id)
           taken == IF session = None THEN 0 ELSE session.total_frames
       IN Len(handler'.request.audio.frames) = HistoryChunk
              <=> taken < HistoryChunks * HistoryChunk

NextHistory ==
    \/ ProcessAudioBeginHistory
    \/ HandleProcessAudioEnd
    \/ ClockStepFrames

SpecHistory == Init /\ [][NextHistory]_vars

\* SpecPair, two clients within the calibration period of their sessions: each
\* has a session of its own, "a" and "b", sends it payloads of one frame (at most
\* PairTaken frames a session), reconfigures it and restarts its calibration.
PairObjects == 2
PairTaken == 1

InitVadBeginPair == HandleInitVadBegin({"a", "b"}, PairObjects)
ProcessAudioBeginPair ==
    HandleProcessAudioBegin(
        {"a", "b"},
        { [valid |-> TRUE, frames |-> <<f>>, rest |-> 0] :
            f \in { [level |-> Quiet, webrtc |-> "silence"],
                    [level |-> Loud, webrtc |-> "speech"] } },
        PairObjects, PairTaken)
UpdateVadConfigPair ==
    HandleUpdateVadConfig(
        {"a", "b"},
        { [use_webrtc_vad |-> FALSE,
           rms_vad_config |-> [consecutive_frames_threshold |-> 3]] })
ForceRecalibrationPair == HandleForceRecalibration({"a", "b"})

NextPair ==
    \/ InitVadBeginPair
    \/ HandleInitVadEnd
    \/ ProcessAudioBeginPair
    \/ HandleProcessAudioEnd
    \/ UpdateVadConfigPair
    \/ ForceRecalibrationPair

SpecPair == Init /\ [][NextPair]_vars

Emitted(e) == Count(e, events) > 0

\* The last call was add_audio_sample, made in CALIBRATING / made in ACTIVE.
CalibratingCall == call.op = "add_audio_sample" /\ call.was_calibrating
ActiveCall == call.op = "add_audio_sample" /\ ~call.was_calibrating

\* The last call was the add_audio_sample call on which a calibration completed:
\* svc.samples is then the whole stream that calibration collected.
CompletingCall == CalibratingCall /\ ~svc.is_calibrating

ConstantStream == \A i \in 1..Len(svc.samples) : svc.samples[i] = svc.samples[1]

\* C1: every add_audio_sample call made in CALIBRATING, the call on which the
\* calibration completes included, returns is_speech = false and threshold = 0 and
\* emits neither speech-start nor speech-end, whatever the level.
C1_CalibratingNeverReportsSpeech ==
    CalibratingCall =>
        /\ result.is_speech = FALSE
        /\ result.threshold = 0
        /\ ~Emitted(SPEECH_START)
        /\ ~Emitted(SPEECH_END)

\* A calibration completed on a loud sample that is above the threshold it set.
C1_Witness ==
    /\ CompletingCall
    /\ call.level = Loud
    /\ get_current_threshold(svc) > 0
    /\ call.level * FactorScale > get_current_threshold(svc)

\* C2: with consecutive_frames_threshold >= 2, on an ACTIVE estimator in the
\* non-speech state a sample above threshold that follows a sample at or below
\* threshold emits no speech-start and leaves the reported state false, and so
\* does the sample at or below threshold that follows it.
C2_LoneFrameNeverStartsSpeech ==
    /\ (ActiveCall /\ ~call.was_speech /\ run.above = 1 /\ run.prev = "silent"
          /\ run.n >= 2)
         => ~Emitted(SPEECH_START) /\ ~svc.last_is_speech /\ ~result.is_speech
    /\ (ActiveCall /\ ~call.was_speech /\ run.silent >= 1)
         => ~Emitted(SPEECH_START) /\ ~svc.last_is_speech /\ ~result.is_speech

\* A first frame above threshold right after a silent frame, counted once.
C2_Witness ==
    /\ ActiveCall
    /\ ~call.was_speech
    /\ run.above = 1
    /\ run.prev = "silent"
    /\ run.n >= 2
    /\ svc.consecutive_speech_frames = 1

\* C3: after a calibration on silence, in the non-speech state, a run of
\* consecutive samples above threshold emits speech-start on its N-th sample
\* (N = consecutive_frames_threshold) and on no other, once.
C3_SpeechStartOnNthFrame ==
    (ActiveCall /\ run.quiet_cal /\ ~run.from_speech /\ run.stable /\ run.above >= 1)
        => /\ Emitted(SPEECH_START) <=> run.above = run.n
           /\ Count(SPEECH_START, events) <= 1

\* C4: in ACTIVE, speech-end is emitted only on a sample at or below threshold,
\* in the speech state, when the run of consecutive samples at or below threshold
\* has reached consecutive_frames_threshold; a shorter run while speaking emits no
\* speech-end and keeps is_speech = true.
C4_SpeechEndAfterNSilentFrames ==
    /\ (ActiveCall /\ Emitted(SPEECH_END))
         => /\ call.was_speech
            /\ run.silent >= 1
            /\ run.stable => run.silent >= run.n
    /\ (ActiveCall /\ call.was_speech /\ run.stable
          /\ run.silent >= 1 /\ run.silent < run.n)
         => ~Emitted(SPEECH_END) /\ result.is_speech

\* C5: an add_audio_sample call in CALIBRATING whose timestamp is at least
\* calibration_duration_ms after the calibration start makes the estimator ACTIVE
\* in that call and emits calibration-complete once; an earlier call leaves it
\* CALIBRATING and emits no calibration-complete.
C5_CalibrationCompletesWhenElapsed ==
    CalibratingCall =>
        IF call.elapsed
        THEN /\ ~is_calibrating(svc)
             /\ svc.calibration_complete
             /\ Count(CALIBRATION_COMPLETE, events) = 1
        ELSE /\ is_calibrating(svc)
             /\ ~svc.calibration_complete
             /\ ~Emitted(CALIBRATION_COMPLETE)

\* A call exactly calibration_duration_ms after the start completed the calibration.
C5_Witness ==
    /\ CalibratingCall
    /\ call.elapsed
    /\ call.timestamp - svc.last_calibration_time = svc.config.calibration_duration_ms
    /\ ~is_calibrating(svc)

\* C6 as stated: a constant stream of level L fed to a fresh calibration until it
\* completes leaves noise_floor at L, within the standard deviation, and the
\* estimator not calibrating, however many samples the stream has.
C6_ConstantStreamAnyLength ==
    (CompletingCall /\ ConstantStream)
        => /\ svc.noise_floor - svc.samples[1] <= svc.std_dev
           /\ svc.samples[1] - svc.noise_floor <= svc.std_dev
           /\ ~is_calibrating(svc)

\* C6: a constant stream of level L with at least 5 samples fed to a fresh
\* calibration until it completes leaves noise_floor = L, std_dev = 0 and the
\* estimator not calibrating.
C6_ConstantStreamOfFive ==
    (CompletingCall /\ ConstantStream /\ Len(svc.samples) >= 5)
        => /\ svc.noise_floor = svc.samples[1]
           /\ svc.std_dev = 0
           /\ ~is_calibrating(svc)

\* A calibration completed on five or more loud samples.
C6_Witness ==
    /\ CompletingCall
    /\ ConstantStream
    /\ Len(svc.samples) >= 5
    /\ svc.samples[1] = Loud

\* C7: a calibration that completes with fewer than 5 samples sets noise_floor to
\* 0.02 and std_dev to 0.01 whatever the samples were, makes the estimator ACTIVE,
\* and the call returns its ordinary result.
C7_FallbackProfile ==
    (CompletingCall /\ Len(svc.samples) < 5)
        => /\ svc.noise_floor = 20
           /\ svc.std_dev = 10
           /\ ~is_calibrating(svc)
           /\ svc.calibration_complete
           /\ events = <<CALIBRATION_COMPLETE>>
           /\ result = CalibratingResult(svc, call.level, call.timestamp)

\* A calibration completed on four samples, a loud one among them.
C7_Witness ==
    /\ CompletingCall
    /\ Len(svc.samples) = 4
    /\ \E i \in 1..4 : svc.samples[i] = Loud

\* C8: once calibration has completed, get_current_threshold() is noise_floor +
\* std_dev * sensitivity_factor of the profile get_noise_profile() reports.
C8_ThresholdFromProfile ==
    svc.calibration_complete =>
        LET p == get_noise_profile(svc) IN
        get_current_threshold(svc)
            = p.noise_floor * FactorScale + p.std_dev * p.sensitivity_factor

\* A calibrated estimator whose factor and noise floor have both moved since the
\* calibration, with a deviation that counts.
C8_Witness ==
    /\ svc.calibration_complete
    /\ svc.sensitivity_factor # DEFAULT_CONFIG.initial_sensitivity_factor
    /\ svc.noise_floor # CalibratedProfile(<<>>).noise_floor
    /\ svc.std_dev > 0

\* C9: in every state std_dev >= 0 and 1.2 <= sensitivity_factor <= 2.0.
C9_ProfileBounds ==
    /\ svc.std_dev >= 0
    /\ svc.sensitivity_factor >= 120
    /\ svc.sensitivity_factor <= 200

\* The factor stands at 2.0 after a call that adjusted it on a varying signal.
C9_Witness ==
    /\ ActiveCall
    /\ svc.sensitivity_factor = 200
    /\ Len(svc.samples) >= 10
    /\ AdjustedFactorUnclamped(svc.sensitivity_factor, LastN(svc.samples, 10)) > 200

\* C10: force_recalibration, in any phase, leaves the estimator CALIBRATING with an
\* empty sample buffer and the calibration window restarted at the call's time; a
\* second call at the same time leaves the state of the first.
C10_ForceRecalibrationRestarts ==
    call.op = "force_recalibration" =>
        /\ is_calibrating(svc)
        /\ ~svc.calibration_complete
        /\ svc.samples = <<>>
        /\ svc.last_calibration_time = call.timestamp
        /\ force_recalibration(svc, call.timestamp).svc = svc

\* force_recalibration discarded the samples of a running calibration.
C10_Witness ==
    /\ call.op = "force_recalibration"
    /\ call.was_calibrating
    /\ call.in_flight > 0

----------------------------------------------------------------------------
(* The registry and the cleanup thread *)

\* A pass of the cleanup thread has just ended: the thread sleeps and the clock
\* still shows the time the pass began at.
PassJustEnded == sweep.pc = "sleep" /\ sweep.outcome # "none" /\ now = sweep.now

\* The sessions whose last_activity is older than session_timeout_ms at time t.
Stale(t) == {id \in DOMAIN socket_vad_service.sessions : is_expired(SessionOf(id), t)}

\* C11: after each pass of the expiry sweep, no session whose last_activity was
\* older than session_timeout_ms when the pass began is left in the registry,
\* whatever the request handlers did to the registry during the pass.
C11_NoStaleSessionAfterPass == PassJustEnded => Stale(sweep.now) = {}

\* C12: while the cleanup thread iterates over or deletes from the session
\* collection no handler step inserts into or deletes from it, and while a
\* handler is between its check and its use of the collection the cleanup thread
\* does not delete from it.
C12_MutualExclusion ==
    [][ /\ sweep.pc \in {"scan", "delete"} /\ sweep' = sweep
            => DOMAIN socket_vad_service'.sessions = DOMAIN socket_vad_service.sessions
        /\ handler # Idle /\ handler' = handler
            => DOMAIN socket_vad_service'.sessions = DOMAIN socket_vad_service.sessions
      ]_vars

----------------------------------------------------------------------------
(* Requests and their results *)

\* The request completed last named a session id, and carried what the handler
\* needs besides it.
WellFormed ==
    /\ req.given # NoId
    /\ req.op = "update_vad_config" => req.config # NoConfig
    /\ req.op = "process_audio" => req.audio # NoAudio

\* C13: a config-update, force-recalibration or debug-state request naming an id
\* that is not registered is answered with an error and leaves the set of
\* sessions, and so their count, as it was; an init or process request naming
\* such an id registers a session for it.
C13_UnknownSessionIsAnError ==
    WellFormed /\ ~req.known =>
        /\ req.op \in {"update_vad_config", "force_recalibration", "get_debug_state"}
             => /\ reply.name = "error"
                /\ req.sessions_after = req.sessions_before
                /\ req.obj = 0
        /\ req.op \in {"init_vad", "process_audio"} /\ ~req.failed
             => req.sessions_after = req.sessions_before \cup {req.session_id}

\* A config update for the unregistered id "a" was refused while another session
\* was registered.
C13_Witness ==
    /\ req.op = "update_vad_config" /\ req.given = "a" /\ req.config # NoConfig
    /\ ~req.known
    /\ req.sessions_before # {}
    /\ reply = ErrorReply("Session not found")
    /\ get_session_count(socket_vad_service) = 1

\* The step that ends a process request for a registered session whose payload
\* base64.b64decode rejects.
UndecodableProcessed ==
    /\ handler.pc = "lookup"
    /\ handler.request.op = "process_audio"
    /\ ~handler.request.audio.valid
    /\ handler.request.known
    /\ handler.request.session_id \in DOMAIN socket_vad_service.sessions
    /\ handler' = Idle

\* C14: a process call whose payload cannot be decoded returns an error result
\* and leaves every field of the session (last_activity and the estimator's state
\* among them) as it was before the call.
C14_UndecodablePayloadLeavesSession ==
    [][ UndecodableProcessed =>
          /\ "error" \in DOMAIN reply'.data
          /\ socket_vad_service'.sessions[handler.request.session_id]
                 = SessionOf(handler.request.session_id) ]_vars

----------------------------------------------------------------------------
(* Listeners *)

\* The callback was called with the event during the latest API call.
Received(event, callback) ==
    \E k \in 1..Len(delivered.invoked) :
        delivered.invoked[k] = [event |-> event, callback |-> callback]

\* C15: when a listener of an event raises during delivery, every other listener
\* registered for that event still receives the event.
C15_FailingListenerIsIsolated ==
    \A i \in 1..Len(events) : \A j \in 1..Len(listeners[events[i]]) :
        delivered.raised /\ ~Raises(listeners[events[i]][j])
            => Received(events[i], listeners[events[i]][j])

----------------------------------------------------------------------------
(* Frames and chunks *)

\* The step that ends a process request whose payload was decoded.
ChunkProcessed ==
    /\ handler.pc = "lookup"
    /\ handler.request.op = "process_audio"
    /\ handler.request.audio.valid
    /\ handler.request.session_id \in DOMAIN socket_vad_service.sessions
    /\ handler' = Idle

\* On such a step: the session before and after, the frames of the chunk, and the
\* record the step appended to the frame history for the k-th of them.
Before == SessionOf(handler.request.session_id)
After == socket_vad_service'.sessions[handler.request.session_id]
ChunkFrames == CompleteFrames(handler.request.audio, Before.frame_size)
Appended(k) == After.frames[Len(After.frames) - Len(ChunkFrames) + k]
ChunkSpeechFrames == Cardinality({k \in 1..Len(ChunkFrames) : Appended(k).is_speech_ensemble})

\* C16: with both detectors enabled, a frame on which the secondary detector
\* fails gets the primary (RMS) detector's verdict as its ensemble verdict, and
\* the caller gets an ordinary result, not an error.
C16_SecondaryFailureFallsBackToPrimary ==
    [][ ChunkProcessed =>
          \A k \in 1..Len(ChunkFrames) :
              /\ ChunkFrames[k].webrtc = "error"
              /\ Before.config.use_webrtc_vad /\ Before.config.use_rms_vad
              => /\ Appended(k).is_speech_ensemble = Appended(k).is_speech_rms
                 /\ reply'.name # "error"
                 /\ "error" \notin DOMAIN reply'.data ]_vars

\* verdict * weight, in units of 1/FactorScale
Weighted(verdict, weight) == IF verdict THEN weight ELSE 0

\* C17: the ensemble verdict of every frame is
\* primary * rms_weight + secondary * webrtc_weight > 0.5 when both detectors are
\* enabled, and the verdict of the enabled detector when exactly one is.
C17_EnsembleVerdict ==
    [][ ChunkProcessed =>
          \A k \in 1..Len(ChunkFrames) :
              LET f == Appended(k)
                  config == After.config
              IN /\ config.use_rms_vad /\ config.use_webrtc_vad
                       => f.is_speech_ensemble =
                            (2 * (Weighted(f.is_speech_rms, config.rms_weight)
                                  + Weighted(f.is_speech_webrtc, config.webrtc_weight))
                               > FactorScale)
                 /\ config.use_rms_vad /\ ~config.use_webrtc_vad
                       => f.is_speech_ensemble = f.is_speech_rms
                 /\ ~config.use_rms_vad /\ config.use_webrtc_vad
                       => f.is_speech_ensemble = f.is_speech_webrtc ]_vars

\* A session with both detectors enabled and weights 0.3 / 0.6 holds a frame the
\* primary detector alone called speech, with a speech ensemble verdict.
C17_Witness ==
    \E id \in DOMAIN socket_vad_service.sessions :
        /\ SessionOf(id).config.use_rms_vad /\ SessionOf(id).config.use_webrtc_vad
        /\ SessionOf(id).config.rms_weight = 60
        /\ \E k \in 1..Len(SessionOf(id).frames) :
               /\ SessionOf(id).frames[k].is_speech_rms
               /\ ~SessionOf(id).frames[k].is_speech_webrtc
               /\ SessionOf(id).frames[k].is_speech_ensemble

\* C18: a chunk with at least one complete frame yields speech_start exactly when
\* more than half of its frames have a speech verdict and the session was not
\* speaking, speech_end exactly when at most half do and the session was
\* speaking, and vad_update with the unchanged speaking flag otherwise; a chunk
\* without a complete frame yields vad_update and leaves the flag unchanged.
C18_ChunkTransitions ==
    [][ ChunkProcessed =>
          LET n == Len(ChunkFrames)
              majority == 2 * ChunkSpeechFrames > n
              name == reply'.data.event
          IN /\ reply'.name = name
             /\ n >= 1 => /\ name = "speech_start" <=> majority /\ ~Before.is_speaking
                          /\ name = "speech_end" <=> ~majority /\ Before.is_speaking
                          /\ name = "speech_start" => After.is_speaking
                          /\ name = "speech_end" => ~After.is_speaking
             /\ n = 0 => name = "vad_update"
             /\ name \notin {"speech_start", "speech_end"}
                   => /\ name = "vad_update"
                      /\ reply'.data.is_speaking = Before.is_speaking
                      /\ After.is_speaking = Before.is_speaking ]_vars

\* A chunk of two frames, exactly one of them speech, ended the speech of a
\* session that was speaking.
C18_Witness ==
    /\ req.op = "process_audio" /\ req.audio.valid /\ Len(req.audio.frames) = 2
    /\ reply.name = "speech_end"
    /\ req.session_id \in DOMAIN socket_vad_service.sessions
    /\ LET frames == SessionOf(req.session_id).frames IN
       /\ Len(frames) >= 2
       /\ frames[Len(frames)].is_speech_ensemble # frames[Len(frames) - 1].is_speech_ensemble

----------------------------------------------------------------------------
(* Creation and removal of sessions *)

\* C19: get_or_create_session without an id returns an id that was not registered
\* together with a newly constructed session; with an id it constructs a session
\* only when the id is not registered, and otherwise returns the session object
\* registered under the id and leaves the set of sessions as it was.
C19_GetOrCreate ==
    req.op = "init_vad" /\ ~req.failed =>
        /\ reply.name = "vad_initialized" /\ reply.data.session_id = req.session_id
        /\ req.given = NoId => /\ req.session_id # NoId
                               /\ req.session_id \notin req.sessions_before
        /\ req.given # NoId => req.session_id = req.given
        /\ ~req.known => /\ req.obj > req.objects_before
                         /\ req.sessions_after = req.sessions_before \cup {req.session_id}
        /\ req.known => /\ req.obj = req.obj_before
                        /\ req.sessions_after = req.sessions_before

\* A second init_vad for "a" got the session the first one constructed, while a
\* session with a generated id was registered as well.
C19_Witness ==
    /\ req.op = "init_vad" /\ req.given = "a" /\ req.known
    /\ req.obj = req.obj_before /\ req.obj > 0
    /\ get_session_count(socket_vad_service) = 2
    /\ \E id \in Uuids : id \in DOMAIN socket_vad_service.sessions

\* C20: remove_session(id) returns true and removes the session exactly when the
\* id is registered, and returns false and changes nothing otherwise; after a
\* disconnect that carries a session id the id is not registered.
C20_RemoveSession ==
    req.op = "disconnect" /\ req.given # NoId =>
        /\ ~req.failed
        /\ req.returned <=> req.known
        /\ req.session_id \notin req.sessions_after
        /\ ~req.known => req.sessions_after = req.sessions_before

----------------------------------------------------------------------------
(* Configuration of the estimator *)

C23_UpdateConfigKeepsState ==
    [][svc'.config # svc.config
       => /\ [svc' EXCEPT !.config = svc.config] = svc
          /\ svc'.is_calibrating = svc.is_calibrating
          /\ svc'.samples = svc.samples
          /\ events' = events
          /\ result' = result]_vars

\* An ACTIVE estimator with samples in its history and a counter running has had
\* its hysteresis length updated to 5.
C23_Witness ==
    /\ svc.config.consecutive_frames_threshold = 5
    /\ ~svc.is_calibrating
    /\ svc.calibration_complete
    /\ Len(svc.samples) >= 2
    /\ svc.consecutive_silence_frames >= 1
    /\ svc.consecutive_silence_frames < 5

----------------------------------------------------------------------------
(* Shutdown of the registry *)

----------------------------------------------------------------------------
(* Order of delivery *)

IsPrefix(a, b) == Len(a) <= Len(b) /\ SubSeq(b, 1, Len(a)) = a

\* For the events evs in emission order: each event to each callback registered
\* for it, in registration order.
RECURSIVE InRegistrationOrder(_, _)
InRegistrationOrder(ls, evs) ==
    IF evs = <<>> THEN <<>>
    ELSE [i \in 1..Len(ls[Head(evs)]) |->
              [event |-> Head(evs), callback |-> ls[Head(evs)][i]]]
         \o InRegistrationOrder(ls, Tail(evs))

\* C24: listeners of one event kind are invoked synchronously inside the
\* emitting call, in the order in which they were registered, and the events of
\* a call reach them in the order in which they were emitted: a registration
\* goes to the end of its kind's list, a removal keeps the order of the others,
\* and what a call has invoked when it ends is, in that order, each event it
\* emitted to each callback registered for it (up to the first callback that
\* raised, if one did).
C24_DeliveryInRegistrationOrder ==
    [][/\ \A e \in EventKinds :
            \/ listeners'[e] = listeners[e]
            \/ \E c \in Callbacks : listeners'[e] = Append(listeners[e], c)
            \/ \E i \in 1..Len(listeners[e]) :
                   listeners'[e] = SubSeq(listeners[e], 1, i - 1)
                                   \o SubSeq(listeners[e], i + 1, Len(listeners[e]))
       /\ (now' = now /\ listeners' = listeners)
            => /\ IsPrefix(delivered'.invoked, InRegistrationOrder(listeners', events'))
               /\ ~delivered'.raised
                    => delivered'.invoked = InRegistrationOrder(listeners', events')]_vars

\* A call has invoked two callbacks registered for the event it emitted.
C24_Witness ==
    /\ call.op = "add_audio_sample"
    /\ ~delivered.raised
    /\ Len(delivered.invoked) = 2
    /\ delivered.invoked[1].event = delivered.invoked[2].event
    /\ delivered.invoked[1].callback = "second"
    /\ delivered.invoked[2].callback = "first"
    /\ listeners[delivered.invoked[1].event] = <<"second", "first">>

----------------------------------------------------------------------------
(* Silent recalibration *)

\* An add_audio_sample call processed in ACTIVE, below the threshold, when the
\* stream has been below the threshold for longer than
\* silence_duration_for_recal_ms, more than recalibration_interval_ms after the
\* last calibration, with at least 5 samples in the history.
LongSilenceCall ==
    /\ ~svc.is_calibrating
    /\ svc'.consecutive_silence_frames = svc.consecutive_silence_frames + 1
    /\ run.silent >= 1
    /\ now - run.since > svc.config.silence_duration_for_recal_ms
    /\ now - svc.last_calibration_time > svc.config.recalibration_interval_ms
    /\ Len(svc'.samples) >= 5

\* C25: silent recalibration is reachable and effective: such a call recomputes
\* the noise profile from the most recent samples, sets the last-calibration
\* time to the time of the call, emits threshold-changed, stays in ACTIVE and
\* emits neither calibration-start nor calibration-complete.
C25_SilentRecalibration ==
    [][LongSilenceCall
       => /\ svc'.last_calibration_time = now
          /\ Emitted(THRESHOLD_CHANGED)'
          /\ ~Emitted(CALIBRATION_START)' /\ ~Emitted(CALIBRATION_COMPLETE)'
          /\ ~svc'.is_calibrating]_vars

----------------------------------------------------------------------------
(* Continuous tracking of the noise floor and of the sensitivity *)

\* A step that is an add_audio_sample call processed in ACTIVE: one of the
\* hysteresis counters has advanced.  call'.level is its sample.
ActiveSampleStep ==
    /\ ~svc.is_calibrating
    /\ call'.op = "add_audio_sample"
    /\ \/ svc'.consecutive_speech_frames = svc.consecutive_speech_frames + 1
       \/ svc'.consecutive_silence_frames = svc.consecutive_silence_frames + 1

\* The call fired a speech-start or a speech-end transition.
TransitionStep == Emitted(SPEECH_START)' \/ Emitted(SPEECH_END)'

\* C26: every sample processed in ACTIVE whose level is below 1.5 times the
\* noise floor moves the noise floor to smoothing_factor * level +
\* (1 - smoothing_factor) * noise_floor, the samples that fire a speech-start or
\* a speech-end transition included; a sample at or above 1.5 times the noise
\* floor leaves the noise floor as it is.
C26_MovingAverageOnEverySample ==
    [][ActiveSampleStep
       => IF 2 * call'.level < 3 * svc.noise_floor
          THEN svc'.noise_floor =
                   (svc.config.smoothing_factor * call'.level
                    + (FactorScale - svc.config.smoothing_factor) * svc.noise_floor)
                   \div FactorScale
          ELSE svc'.noise_floor = svc.noise_floor]_vars

\* The coefficient of variation stdev / mean of `recent` is above num / den
\* (below it), compared on the exact rationals; it counts as 0 when mean <= 0.
VariationAbove(recent, num, den) ==
    /\ SumSeq(recent) > 0
    /\ den * den * Len(recent) * Dispersion(recent)
         > num * num * (Len(recent) - 1) * SumSeq(recent) * SumSeq(recent)

VariationBelow(recent, num, den) ==
    \/ SumSeq(recent) <= 0
    \/ den * den * Len(recent) * Dispersion(recent)
         < num * num * (Len(recent) - 1) * SumSeq(recent) * SumSeq(recent)

\* C27: once 10 samples are in the history, every add_audio_sample call made in
\* ACTIVE adapts the sensitivity: when the coefficient of variation of the last
\* 10 samples is above 0.5 the call raises sensitivity_factor by 0.05, capped at
\* 2.0, the calls that emit speech-start or speech-end included.
C27_AdaptationOnEveryCall ==
    [][(/\ ActiveSampleStep
        /\ Len(svc'.samples) >= 10
        /\ VariationAbove(LastN(svc'.samples, 10), 1, 2))
       => svc'.sensitivity_factor = Min(200, svc.sensitivity_factor + 5)]_vars

\* C28: whenever the sensitivity adaptation runs with a coefficient of
\* variation below 0.2 and sensitivity_factor above 1.2, it lowers the factor
\* by 0.05, clamped at 1.2, so that a sustained stable signal brings the factor
\* down to 1.2.
C28_StableSignalLowersFactor ==
    [][(/\ ActiveSampleStep
        /\ ~TransitionStep
        /\ Len(svc'.samples) >= 10
        /\ VariationBelow(LastN(svc'.samples, 10), 1, 5)
        /\ svc.sensitivity_factor > 120)
       => svc'.sensitivity_factor = Max(120, svc.sensitivity_factor - 5)]_vars

----------------------------------------------------------------------------
(* The rolling history *)

\* C29: in ACTIVE the history holds at most max_sample_history samples when an
\* add_audio_sample call returns, whatever number of samples the calibration
\* before it collected, and the sample dropped is the oldest.
C29_HistoryIsBounded ==
    [][ActiveSampleStep
       => /\ Len(svc'.samples) <= svc.config.max_sample_history
          /\ \/ svc'.samples = Append(svc.samples, call'.level)
             \/ svc'.samples = Tail(Append(svc.samples, call'.level))]_vars

----------------------------------------------------------------------------
(* Segmentation of a chunk *)

\* C30: a decoded chunk of n bytes is processed as exactly floor(n / f) frames
\* of f = frame_size bytes, in increasing order of position; the n mod f bytes
\* after them are dropped and not carried into the next chunk: whatever chunks
\* came before, total_frames grows by floor(n / f), the frame history and the
\* estimator's samples by the levels of those frames in order.
C30_WholeFramesInOrder ==
    [][ChunkProcessed
       => LET f == Before.frame_size
              n == DecodedLength(handler.request.audio, f)
              count == n \div f
              levels == [k \in 1..count |-> handler.request.audio.frames[k].level]
          IN /\ After.total_frames = Before.total_frames + count
             /\ Len(After.frames) = Len(Before.frames) + count
             /\ \A k \in 1..count :
                    After.frames[Len(Before.frames) + k].rms_level = levels[k]
             /\ After.audio_service.samples = Before.audio_service.samples \o levels]_vars

\* A chunk of one frame and two more bytes has been processed by a session that
\* had processed a chunk before it: the session has counted one more frame.
C30_Witness ==
    /\ req.op = "process_audio"
    /\ ~req.failed
    /\ req.audio.valid
    /\ Len(req.audio.frames) = 1
    /\ req.audio.rest = 2
    /\ req.session_id \in DOMAIN socket_vad_service.sessions
    /\ SessionOf(req.session_id).total_frames = 3
    /\ Len(SessionOf(req.session_id).frames) = 3

----------------------------------------------------------------------------
(* Alternation of the speech events *)

\* A step that is an API call which emits: add_audio_sample in ACTIVE, or a call
\* that left other events, or another call, than the one before it.
EmittingStep == ActiveSampleStep \/ events' # events \/ call' # call

\* C36: over any sequence of add_audio_sample, force_recalibration and
\* update_config calls, speech-start and speech-end strictly alternate, beginning
\* with speech-start: speech-start is emitted only while no speech-start is
\* unmatched, speech-end only while one is, and the reported speech state, which
\* is false at first and records whether a speech-start is unmatched, changes
\* with these events and with nothing else.
C36_SpeechEventsAlternate ==
    [][/\ (EmittingStep /\ Emitted(SPEECH_START)')
            => ~svc.last_is_speech /\ svc'.last_is_speech /\ ~Emitted(SPEECH_END)'
       /\ (EmittingStep /\ Emitted(SPEECH_END)')
            => svc.last_is_speech /\ ~svc'.last_is_speech /\ ~Emitted(SPEECH_START)'
       /\ svc'.last_is_speech # svc.last_is_speech
            => /\ EmittingStep
               /\ Count(SPEECH_START, events') + Count(SPEECH_END, events') = 1]_vars

\* A speech-end has matched a speech-start.
C36_Witness ==
    /\ ActiveCall
    /\ Emitted(SPEECH_END)
    /\ call.was_speech
    /\ ~svc.last_is_speech

----------------------------------------------------------------------------
(* force_recalibration and the hysteresis *)

\* C38: whenever add_audio_sample emits speech-start, each of the last
\* consecutive_frames_threshold add_audio_sample calls was processed in ACTIVE
\* with a level above the threshold, also when force_recalibration was called in
\* between: a sample consumed by a calibration breaks a run of speech frames.
C38_SpeechStartAfterNActiveFrames ==
    [][(ActiveSampleStep /\ Emitted(SPEECH_START)')
       => run'.above >= svc.config.consecutive_frames_threshold]_vars

\* A step that is a force_recalibration call.
ForceRecalibrationStep ==
    /\ call'.op = "force_recalibration"
    /\ events' = <<CALIBRATION_START>>
    /\ svc'.config = svc.config
    /\ <<svc, call, events>>' # <<svc, call, events>>

\* C39: force_recalibration changes only the phase flags, the sample buffer and
\* the calibration start time; noise_floor, std_dev, sensitivity_factor, hence
\* the threshold, the reported speech state and both hysteresis counters keep
\* their values, and go on keeping them while the new calibration runs.
C39_ForceRecalibrationKeepsProfile ==
    [][/\ ForceRecalibrationStep
            => /\ [svc' EXCEPT !.is_calibrating = svc.is_calibrating,
                               !.calibration_complete = svc.calibration_complete,
                               !.samples = svc.samples,
                               !.last_calibration_time = svc.last_calibration_time] = svc
               /\ get_current_threshold(svc') = get_current_threshold(svc)
       /\ (svc.is_calibrating /\ svc'.is_calibrating)
            => /\ svc'.noise_floor = svc.noise_floor
               /\ svc'.std_dev = svc.std_dev
               /\ svc'.sensitivity_factor = svc.sensitivity_factor
               /\ svc'.last_is_speech = svc.last_is_speech
               /\ svc'.consecutive_speech_frames = svc.consecutive_speech_frames
               /\ svc'.consecutive_silence_frames = svc.consecutive_silence_frames]_vars

\* force_recalibration was called on an ACTIVE estimator in the speech state,
\* with a calibrated profile and a running counter, and a sample has since been
\* collected by the new calibration.
C39_Witness ==
    /\ CalibratingCall
    /\ svc.is_calibrating
    /\ Len(svc.samples) >= 1
    /\ svc.last_is_speech
    /\ svc.consecutive_speech_frames >= 2
    /\ svc.noise_floor > 0

----------------------------------------------------------------------------
(* A session's configuration *)

\* C31: after any sequence of update_vad_config calls, those that set sample_rate
\* or frame_duration_ms included, a session's frame_size is
\* sample_rate * (frame_duration_ms / 1000) * 2 of its current configuration.
C31_FrameSizeFollowsConfig ==
    \A id \in DOMAIN socket_vad_service.sessions :
        SessionOf(id).frame_size = FrameSize(SessionOf(id).config)

\* A step that is an update_vad_config request for a registered session.
ConfigUpdateStep ==
    /\ handler = Idle
    /\ handler' = Idle
    /\ now' = now
    /\ req'.op = "update_vad_config"
    /\ req'.config # NoConfig
    /\ req'.session_id \in DOMAIN socket_vad_service.sessions

\* C32: a session has a secondary detector exactly when its configuration has
\* use_webrtc_vad on; update_vad_config constructs a new one only when
\* use_webrtc_vad or aggressiveness changes value, and changes the estimator only
\* when the partial configuration has the nested rms_vad_config.
C32_SecondaryDetectorFollowsConfig ==
    [][/\ \A id \in DOMAIN socket_vad_service'.sessions :
             LET s == socket_vad_service'.sessions[id] IN
             (s.webrtc_vad # None) <=> s.config.use_webrtc_vad
       /\ ConfigUpdateStep
            => LET before == SessionOf(req'.session_id)
                   after == socket_vad_service'.sessions[req'.session_id]
               IN /\ after.webrtc_vad # before.webrtc_vad
                        => \/ after.config.use_webrtc_vad # before.config.use_webrtc_vad
                           \/ after.config.aggressiveness # before.config.aggressiveness
                  /\ after.audio_service # before.audio_service
                        => "rms_vad_config" \in DOMAIN req'.config]_vars

\* A session was switched to another aggressiveness and back, each time with a
\* new detector, and its estimator has taken a nested configuration.
C32_Witness ==
    /\ req.op = "update_vad_config"
    /\ "a" \in DOMAIN socket_vad_service.sessions
    /\ SessionOf("a").webrtc_vad # None
    /\ SessionOf("a").webrtc_vad.serial = 3
    /\ SessionOf("a").webrtc_vad.aggressiveness = 2
    /\ SessionOf("a").audio_service.config.consecutive_frames_threshold = 3

----------------------------------------------------------------------------
(* A session's speech *)

\* C37: for one session the speech_start and speech_end results strictly
\* alternate, beginning with speech_start: a session is constructed not speaking,
\* speech_start is returned only to a session that is not speaking and makes it
\* speaking, speech_end only to one that is and ends it, and nothing else changes
\* the flag.  Every speech_end reports as duration_ms its timestamp minus the
\* timestamp of the speech_start it matches, which the session keeps meanwhile.
C37_SessionSpeechAlternates ==
    [][/\ ChunkProcessed
            => LET data == reply'.data IN
               /\ data.event = "speech_start"
                    => /\ ~Before.is_speaking /\ After.is_speaking
                       /\ After.speech_start_time = data.timestamp
               /\ data.event = "speech_end"
                    => /\ Before.is_speaking /\ ~After.is_speaking
                       /\ data.duration_ms = data.timestamp - Before.speech_start_time
               /\ data.event \notin {"speech_start", "speech_end"}
                    => /\ After.is_speaking = Before.is_speaking
                       /\ After.speech_start_time = Before.speech_start_time
       /\ \A id \in DOMAIN socket_vad_service'.sessions :
             LET after == socket_vad_service'.sessions[id] IN
             IF id \in DOMAIN socket_vad_service.sessions
             THEN \/ /\ after.is_speaking = SessionOf(id).is_speaking
                     /\ after.speech_start_time = SessionOf(id).speech_start_time
                  \/ ChunkProcessed /\ id = handler.request.session_id
             ELSE ~after.is_speaking]_vars

\* A speech that began at one time has ended at a later one.
C37_Witness ==
    /\ req.op = "process_audio"
    /\ reply.name = "speech_end"
    /\ reply.data.duration_ms > 0
    /\ SessionOf(req.session_id).speech_start_time < reply.data.timestamp
    /\ ~SessionOf(req.session_id).is_speaking

----------------------------------------------------------------------------
(* A session's frame history *)

\* C33: a session's frame history never holds more than 100 frames; when a frame
\* arrives at a full history the oldest is evicted and the others keep their
\* order, the frames of the chunk coming last in the order they were sent; and
\* speech_frames never exceeds total_frames.
C33_FrameHistoryIsBounded ==
    [][/\ \A id \in DOMAIN socket_vad_service'.sessions :
             LET s == socket_vad_service'.sessions[id] IN
             /\ Len(s.frames) <= 100
             /\ s.speech_frames <= s.total_frames
       /\ ChunkProcessed
            => LET n == Len(ChunkFrames)
                   kept == Len(After.frames) - n
               IN /\ Len(After.frames) = Min(Len(Before.frames) + n, 100)
                  /\ After.total_frames = Before.total_frames + n
                  /\ \A k \in 1..kept :
                        After.frames[k] = Before.frames[Len(Before.frames) - kept + k]
                  /\ \A k \in 1..n :
                        kept + k >= 1 => Appended(k).rms_level = ChunkFrames[k].level]_vars

\* A session has taken more than 100 frames: its history is full and no longer
\* begins with the first frame it took.
C33_Witness ==
    /\ req.op = "process_audio"
    /\ req.session_id \in DOMAIN socket_vad_service.sessions
    /\ LET s == SessionOf(req.session_id) IN
       /\ s.total_frames > 100
       /\ Len(s.frames) = 100
       /\ s.frames[1].rms_level # 1
       /\ s.speech_frames >= 1

----------------------------------------------------------------------------
(* The cleanup thread against the handlers *)

\* On a step of the cleanup thread: it removes the session registered under id.
SweepRemoves(id) ==
    /\ sweep.pc = "delete"
    /\ sweep' # sweep
    /\ id \in DOMAIN socket_vad_service.sessions
    /\ id \notin DOMAIN socket_vad_service'.sessions

\* C34: the cleanup thread removes only sessions that are expired at the moment
\* it removes them; however its steps interleave with process_audio, a session
\* whose last_activity has been refreshed is not removed.
C34_SweepRemovesOnlyExpired ==
    [][\A id \in DOMAIN socket_vad_service.sessions :
          SweepRemoves(id) => is_expired(SessionOf(id), now)]_vars

\* C35: however get_or_create_session and process_audio interleave with
\* remove_session and the cleanup thread, a get_or_create_session call completes
\* without failing and returns the session that is registered under its id.
C35_GetOrCreateNeverFails ==
    LET called == \/ req.op = "init_vad"
                  \/ req.op = "process_audio" /\ req.given # NoId /\ req.audio # NoAudio
    IN called => /\ ~req.failed
                 /\ req.session_id \in req.sessions_after
                 /\ req.obj # 0

----------------------------------------------------------------------------
(* Isolation of sessions *)

\* On a step of a handler: the request it completes is for the session
\* registered under id.
OperatedOn(id) ==
    \/ handler.pc = "lookup" /\ handler' = Idle /\ handler.request.session_id = id
    \/ /\ handler = Idle /\ handler' = Idle
       /\ req'.op \in {"update_vad_config", "force_recalibration"}
       /\ req'.session_id = id

\* C40: a process, update_vad_config or force_recalibration request for one
\* session leaves every other registered session as it was (configuration,
\* estimator, speaking flag, counters and frame history), and leaves the
\* registry's default configuration as it was.
C40_SessionsAreIsolated ==
    [][/\ socket_vad_service'.config = socket_vad_service.config
       /\ socket_vad_service'.config = DEFAULT_SOCKET_VAD_CONFIG
       /\ \A b \in DOMAIN socket_vad_service.sessions \cap DOMAIN socket_vad_service'.sessions :
             socket_vad_service'.sessions[b] # SessionOf(b) => OperatedOn(b)]_vars

\* "a" has just been reconfigured, away from the default, while "b" had taken
\* frames, was speaking, and still has the default configuration.
C40_Witness ==
    /\ req.op = "update_vad_config" /\ req.session_id = "a"
    /\ {"a", "b"} \subseteq DOMAIN socket_vad_service.sessions
    /\ SessionOf("a").config # socket_vad_service.config
    /\ SessionOf("a").audio_service.config.consecutive_frames_threshold = 3
    /\ SessionOf("b").config = socket_vad_service.config
    /\ SessionOf("b").audio_service.config.consecutive_frames_threshold = 2
    /\ SessionOf("b").total_frames = PairTaken
    /\ SessionOf("b").is_speaking

====
